---- MODULE Spec2Model ----
(***************************************************************************)
(* Sony .spi1d LUT reader / writer of colour/io/luts/sony_spi1d.py and the *)
(* ROMM / RIMM / ERIMM transfer functions of                               *)
(* colour/models/rgb/transfer_functions/rimm_romm_rgb.py.                  *)
(*                                                                         *)
(* Text is modelled character by character: a string is a sequence of      *)
(* one-character strings, a file is the sequence of its lines (each        *)
(* "write" call of the writer emits exactly one newline-terminated line).   *)
(* A float of the LUT codec is modelled as an exact decimal: the integer   *)
(* count of 10^-Prec units.  An array is a record [shape, flat] as in      *)
(* numpy.                                                                  *)
(*                                                                         *)
(* Inputs: LUTs obey the data model (tables of at least two samples,       *)
(* LUT3x1D rows of three values, domains with min < max, comments that are *)
(* single lines); the LUT classes are value carriers, their constructors   *)
(* are not part of the two functions modelled.  Files given to the reader  *)
(* are made of lines of the .spi1d grammar (keyword lines with numeric     *)
(* arguments, numeric rows of one width, comments, blanks) with at least   *)
(* two rows; their order, count and numbers vary.                          *)
(*                                                                         *)
(* The transfer functions are modelled on scalars, in decimal fixed-point  *)
(* arithmetic of 10^-FPrec units (32-bit integers bound the values to      *)
(* about 2147, hence bit depths 8 and 10).  The specifications share the   *)
(* variables: Spec (LUT codec calls), SpecCCTF (an encoding call and the   *)
(* decoding of its result) and SpecScale (the steps of                     *)
(* cctf_decoding_RIMMRGB under the ambient domain-range scale).            *)
(*                                                                         *)
(* planck_law of colour/colorimetry/blackbody.py is modelled on            *)
(* wavelengths in nanometres and temperatures in kelvin; a float it        *)
(* returns is held as its sign and the natural logarithm of its magnitude. *)
(* SpecPlanck is a bounded sequence of calls through the memoizing         *)
(* wrapper of the function.                                                *)
(***************************************************************************)
EXTENDS Integers, Sequences, FiniteSets, TLC

\* ------------------------------------------------------------------ bounds
\* Number of planck_law calls of one behaviour.
MaxCalls == 3
\* Largest explicit "decimals" argument tried (besides the default).
MaxDecimals == 2
\* Largest number of table rows of a LUT handed to the writer.
MaxSamples == 2
\* Largest number of comments of a LUT handed to the writer.
MaxComments == 2

\* --------------------------------------------------------------- constants
\* def write_LUT_SonySPI1D(LUT, path, decimals: int = 7)
DefaultDecimals == 7

\* Fractional decimal digits a modelled float carries: one more than the
\* default formatting precision, so that the default precision rounds too.
Prec == DefaultDecimals + 1

RECURSIVE Pow10(_)
Pow10(n) == IF n = 0 THEN 1 ELSE 10 * Pow10(n - 1)

\* k thousandths as a modelled float.
Milli(k) == k * Pow10(Prec - 3)

Abs(n) == IF n < 0 THEN 0 - n ELSE n

\* ------------------------------------------------------------------- text
Whitespace == {" ", "\t"}
DigitChar == <<"0", "1", "2", "3", "4", "5", "6", "7", "8", "9">>
DigitSet == {DigitChar[i] : i \in 1..10}
DigitVal(c) == (CHOOSE i \in 1..10 : DigitChar[i] = c) - 1

\* str.strip()
RECURSIVE LStrip(_)
LStrip(s) ==
    IF s = <<>> THEN s
    ELSE IF Head(s) \in Whitespace THEN LStrip(Tail(s)) ELSE s

RECURSIVE RStrip(_)
RStrip(s) ==
    IF s = <<>> THEN s
    ELSE IF s[Len(s)] \in Whitespace THEN RStrip(SubSeq(s, 1, Len(s) - 1)) ELSE s

Strip(s) == RStrip(LStrip(s))

\* str.startswith(c) for a one-character prefix
StartsWith(s, c) == Len(s) >= 1 /\ s[1] = c

\* str.split(): the maximal runs of non-whitespace characters, in order
RECURSIVE SplitFrom(_, _, _)
SplitFrom(s, cur, acc) ==
    IF s = <<>> THEN (IF cur = <<>> THEN acc ELSE Append(acc, cur))
    ELSE IF Head(s) \in Whitespace
         THEN SplitFrom(Tail(s), <<>>, IF cur = <<>> THEN acc ELSE Append(acc, cur))
         ELSE SplitFrom(Tail(s), Append(cur, Head(s)), acc)

Split(s) == SplitFrom(s, <<>>, <<>>)

\* Decimal digits of a natural number, without padding.
RECURSIVE Digits(_)
Digits(n) ==
    IF n < 10 THEN <<DigitChar[n + 1]>>
    ELSE Append(Digits(n \div 10), DigitChar[(n % 10) + 1])

\* The w low decimal digits of n, zero-padded on the left.
RECURSIVE PadDigits(_, _)
PadDigits(n, w) ==
    IF w = 0 THEN <<>>
    ELSE Append(PadDigits(n \div 10, w - 1), DigitChar[(n % 10) + 1])

\* Value of a string of decimal digits (0 for the empty string).
RECURSIVE DigitsVal(_)
DigitsVal(s) ==
    IF s = <<>> THEN 0
    ELSE 10 * DigitsVal(SubSeq(s, 1, Len(s) - 1)) + DigitVal(s[Len(s)])

IsDigits(s) == \A i \in 1..Len(s) : s[i] \in DigitSet

\* n / m with the fraction dropped (not what the conversions do).
RoundDown(n, m) == n \div m

\* n / m rounded to the nearest integer, ties to even (n >= 0, m >= 1):
\* the rounding of the correctly rounded float <-> decimal conversions.
RoundHalfEven(n, m) ==
    LET q == n \div m
        r == n % m
    IN  IF 2 * r > m \/ (2 * r = m /\ q % 2 = 1) THEN q + 1 ELSE q

\* The scaled magnitude "{:0.<d>f}" prints: |v| in units of 10^-d.
Quantize(a, d) ==
    IF d <= Prec THEN RoundHalfEven(a, Pow10(Prec - d)) ELSE a * Pow10(d - Prec)

\* "{:0.<d>f}".format(v): fixed point, exactly d fractional digits, a "-"
\* for a negative value (also when it rounds to zero), no "." when d = 0.
FormatFixed(v, d) ==
    LET q == Quantize(Abs(v), d)
        sign == IF v < 0 THEN <<"-">> ELSE <<>>
    IN  sign \o Digits(q \div Pow10(d))
             \o (IF d = 0 THEN <<>> ELSE <<".">> \o PadDigits(q % Pow10(d), d))

\* Result of a conversion that may raise.
Ok(v) == [ok |-> TRUE, val |-> v]
Fail(e) == [ok |-> FALSE, err |-> e]

\* Position of the first "." of s, or 0.
DotAt(s) ==
    IF \E i \in 1..Len(s) : s[i] = "."
    THEN CHOOSE i \in 1..Len(s) : s[i] = "." /\ \A j \in 1..(i - 1) : s[j] # "."
    ELSE 0

\* float(token) for plain decimal text: [sign] digits ["." digits].
ParseFloat(tok) ==
    LET neg == StartsWith(tok, "-")
        body == IF neg \/ StartsWith(tok, "+") THEN Tail(tok) ELSE tok
        dot == DotAt(body)
        ip == IF dot = 0 THEN body ELSE SubSeq(body, 1, dot - 1)
        fp == IF dot = 0 THEN <<>> ELSE SubSeq(body, dot + 1, Len(body))
        fv == IF Len(fp) <= Prec
              THEN DigitsVal(fp) * Pow10(Prec - Len(fp))
              ELSE RoundHalfEven(DigitsVal(fp), Pow10(Len(fp) - Prec))
        mag == DigitsVal(ip) * Pow10(Prec) + fv
    IN  IF IsDigits(ip) /\ IsDigits(fp) /\ Len(ip) + Len(fp) >= 1
        THEN Ok(IF neg THEN 0 - mag ELSE mag)
        ELSE Fail("ValueError")

\* as_int_scalar(token): int() of plain integer text.
ParseInt(tok) ==
    LET neg == StartsWith(tok, "-")
        body == IF neg \/ StartsWith(tok, "+") THEN Tail(tok) ELSE tok
    IN  IF IsDigits(body) /\ Len(body) >= 1
        THEN Ok(IF neg THEN 0 - DigitsVal(body) ELSE DigitsVal(body))
        ELSE Fail("ValueError")

\* ----------------------------------------------------------------- arrays
\* A numpy array: its shape and its elements in row-major order.
RECURSIVE Product(_)
Product(shape) == IF shape = <<>> THEN 1 ELSE Head(shape) * Product(Tail(shape))

RECURSIVE Flatten(_)
Flatten(rows) == IF rows = <<>> THEN <<>> ELSE Head(rows) \o Flatten(Tail(rows))

\* np.array of a flat list / of a list of equally long rows
Array1(vals) == [shape |-> <<Len(vals)>>, flat |-> vals]
Array2(rows) == [shape |-> <<Len(rows), Len(rows[1])>>, flat |-> Flatten(rows)]

\* array.size
Size(a) == Product(a.shape)

\* Number of items "for row in array" yields, and the i-th of them as the
\* sequence of its values (a one-dimensional array yields scalars).
RowCount(a) == a.shape[1]
RowWidth(a) == Product(Tail(a.shape))
RowAt(a, i) == SubSeq(a.flat, (i - 1) * RowWidth(a) + 1, i * RowWidth(a))

\* np.squeeze: drops the axes of length one.
Squeeze(a) == [shape |-> SelectSeq(a.shape, LAMBDA n : n # 1), flat |-> a.flat]

\* Ascending sequence of the members of a finite set of integers.
RECURSIVE SortedSeq(_)
SortedSeq(S) ==
    IF S = {} THEN <<>>
    ELSE LET m == CHOOSE v \in S : \A w \in S : v <= w
         IN  <<m>> \o SortedSeq(S \ {m})

\* The distinct elements of the flattened array from the largest down (not
\* np.unique's order).
UniqueDescending(a) ==
    LET up == SortedSeq({a.flat[i] : i \in 1..Len(a.flat)})
    IN  [i \in 1..Len(up) |-> up[Len(up) + 1 - i]]

\* np.unique: the sorted distinct elements of the flattened array.
Unique(a) == SortedSeq({a.flat[i] : i \in 1..Len(a.flat)})

\* ------------------------------------------------------------ LUT objects
\* LUT1D / LUT3x1D / LUT3D value objects: class, table, domain, comments
\* (the title is not written to the file and is left out).
MakeLUT(cls, table, domain, comments) ==
    [cls |-> cls, table |-> table, domain |-> domain, comments |-> comments]

\* LUT.is_domain_explicit(): the domain is a list of knots rather than the
\* [min, max] interval (LUT1D) or the 2x3 matrix of intervals (LUT3x1D, LUT3D).
IsDomainExplicit(L) ==
    IF L.cls = "LUT1D" THEN L.domain.shape # <<2>> ELSE L.domain.shape # <<2, 3>>

\* --------------------------------------------------------------- keywords
KwVersion == <<"V", "e", "r", "s", "i", "o", "n">>
KwFrom == <<"F", "r", "o", "m">>
KwLength == <<"L", "e", "n", "g", "t", "h">>
KwComponents == <<"C", "o", "m", "p", "o", "n", "e", "n", "t", "s">>
KwOpen == <<"{">>
KwClose == <<"}">>
Space == <<" ">>
Hash == <<"#">>

\* ----------------------------------------------------------------- writer
\* The decimals the call formats with: the argument, or its default.
EffectiveDecimals(dec) == IF dec = <<>> THEN DefaultDecimals ELSE dec[1]

\* One number of the file, "{:0.<decimals>f}".
FormatNumber(v, d) == FormatFixed(v, d)

\* _format_array(row): " {1:0.{0}f} {2:0.{0}f} {3:0.{0}f}"
FormatArray(row, d) ==
    Space \o FormatNumber(row[1], d) \o Space \o FormatNumber(row[2], d)
          \o Space \o FormatNumber(row[3], d)

\* "From {1:0.{0}f} {2:0.{0}f}"
FromLine(domain, d) ==
    KwFrom \o Space \o FormatNumber(domain[1], d) \o Space \o FormatNumber(domain[2], d)

\* A "Length" line that always carries table.size (not the writer's).
LengthLineOfSize(L, is1D) == KwLength \o Space \o Digits(Size(L.table))

\* f"Length {LUTxD.table.size if is_1D else LUTxD.table.shape[0]}"
LengthLine(L, is1D) ==
    KwLength \o Space \o Digits(IF is1D THEN Size(L.table) ELSE L.table.shape[1])

\* f"Components {1 if is_1D else 3}"
ComponentsLine(is1D) == KwComponents \o Space \o Digits(IF is1D THEN 1 ELSE 3)

\* One line per item of "for row in LUTxD.table".
RowLine(L, is1D, i, d) ==
    IF is1D THEN Space \o FormatNumber(RowAt(L.table, i)[1], d)
    ELSE FormatArray(RowAt(L.table, i), d)

\* f"# {comment}"
CommentLine(c) == Hash \o Space \o c

\* The same lines with the comments ahead of the "{" block (not the
\* writer's order).
WrittenLinesCommentsFirst(L, is1D, domain, d) ==
    <<KwVersion \o Space \o <<"1">>,
      FromLine(domain, d),
      LengthLine(L, is1D),
      ComponentsLine(is1D)>>
    \o [i \in 1..Len(L.comments) |-> CommentLine(L.comments[i])]
    \o <<KwOpen>>
    \o [i \in 1..RowCount(L.table) |-> RowLine(L, is1D, i, d)]
    \o <<KwClose>>

\* The lines the "with open(path, 'w')" block writes, one per write call.
WrittenLines(L, is1D, domain, d) ==
    <<KwVersion \o Space \o <<"1">>,
      FromLine(domain, d),
      LengthLine(L, is1D),
      ComponentsLine(is1D),
      KwOpen>>
    \o [i \in 1..RowCount(L.table) |-> RowLine(L, is1D, i, d)]
    \o <<KwClose>>
    \o [i \in 1..Len(L.comments) |-> CommentLine(L.comments[i])]

\* The domain as stored, without np.unique (not the writer's).
WriterDomainFlat(L) == L.domain.flat

\* The domain the "From" line prints: LUT1D.domain, else np.unique(domain).
WriterDomain(L) == IF L.cls = "LUT1D" THEN L.domain.flat ELSE Unique(L.domain)

\* The preconditions without the check of the 3x1D domain (not the
\* writer's).
WritePreconditionNoUniform(L) ==
    IF IsDomainExplicit(L) THEN "\"LUT\" domain must be implicit!"
    ELSE IF L.cls \notin {"LUT1D", "LUT3x1D"}
         THEN "\"LUT\" must be either a 1D or 3x1D \"LUT\"!"
    ELSE ""

\* The attest that fails first, or "" when the three preconditions hold.
WritePrecondition(L) ==
    IF IsDomainExplicit(L) THEN "\"LUT\" domain must be implicit!"
    ELSE IF L.cls \notin {"LUT1D", "LUT3x1D"}
         THEN "\"LUT\" must be either a 1D or 3x1D \"LUT\"!"
    ELSE IF L.cls # "LUT1D" /\ Len(Unique(L.domain)) # 2
         THEN "Non-uniform \"LUT\" domain is unsupported!"
    ELSE ""

\* I/O events of one call, in order.
EvOpen(mode) == [ev |-> "open", mode |-> mode]
EvWrite(line) == [ev |-> "write", text |-> line]
EvReadlines == [ev |-> "readlines"]
EvClose == [ev |-> "close"]

Returned(v) == [kind |-> "returned", value |-> v]
Raised(e, msg) == [kind |-> "raised", error |-> e, message |-> msg]

\* A LUTSequence: an ordered collection of LUT objects.
LUTSequence(elements) == [cls |-> "LUTSequence", seq |-> elements]

\* The last element of a sequence (not the writer's choice).
LastOfSequence(L) == L.seq[Len(L.seq)]

\* LUT[0]: the element of a sequence the writer goes on with.
FirstOfSequence(L) == L.seq[1]

\* LUTxD: the first element of a LUTSequence, else the LUT itself.
LUTxDOf(L) == IF L.cls = "LUTSequence" THEN FirstOfSequence(L) ELSE L

\* The usage_warning of the writer when it is handed a LUTSequence.
SequenceWarning ==
    "\"LUT\" is a \"LUTSequence\" instance was passed, using first sequence \"LUT\""

UsageWarnings(L) == IF L.cls = "LUTSequence" THEN <<SequenceWarning>> ELSE <<>>

\* write_LUT_SonySPI1D(L, path, decimals): what the call returns or raises,
\* the I/O it performs and the warnings it emits.
WriteCall(L, dec) ==
    LET LUTxD == LUTxDOf(L)
        failed == WritePrecondition(LUTxD)
        d == EffectiveDecimals(dec)
        lines == WrittenLines(LUTxD, LUTxD.cls = "LUT1D", WriterDomain(LUTxD), d)
    IN  IF failed # ""
        THEN [ret |-> Raised("AssertionError", failed), io |-> <<>>,
              warnings |-> UsageWarnings(L)]
        ELSE [ret |-> Returned(TRUE),
              io |-> <<EvOpen("w")>> \o [i \in 1..Len(lines) |-> EvWrite(lines[i])]
                     \o <<EvClose>>,
              warnings |-> UsageWarnings(L)]

\* ----------------------------------------------------------------- reader
\* The local variables of read_LUT_SonySPI1D before the loop:
\* domain_min, domain_max = np.array([0, 1]); dimensions = 1; data = [];
\* comments = [].
ReadStart ==
    [domain_min |-> 0, domain_max |-> Pow10(Prec), dimensions |-> 1,
     data |-> <<>>, comments |-> <<>>, error |-> "", message |-> ""]

ReadError(st, e, msg) == [st EXCEPT !.error = e, !.message = msg]

\* as_float_array(tokens): the floats, or a failure when a token is no float.
ParseFloats(tokens) ==
    IF \A i \in 1..Len(tokens) : ParseFloat(tokens[i]).ok
    THEN Ok([i \in 1..Len(tokens) |-> ParseFloat(tokens[i]).val])
    ELSE Fail("ValueError")

\* A "From" branch that keeps the domain of the first "From" line (not the
\* reader's).
ReadFromFirst(st, tokens) ==
    LET vals == ParseFloats(Tail(tokens))
    IN  IF ~vals.ok THEN ReadError(st, "ValueError", "could not convert string to float")
        ELSE IF Len(vals.val) # 2 THEN ReadError(st, "ValueError", "cannot unpack")
        ELSE IF <<st.domain_min, st.domain_max>> # <<0, Pow10(Prec)>> THEN st
        ELSE [st EXCEPT !.domain_min = vals.val[1], !.domain_max = vals.val[2]]

\* domain_min, domain_max = as_float_array(tokens[1:])
ReadFrom(st, tokens) ==
    LET vals == ParseFloats(Tail(tokens))
    IN  IF ~vals.ok THEN ReadError(st, "ValueError", "could not convert string to float")
        ELSE IF Len(vals.val) # 2 THEN ReadError(st, "ValueError", "cannot unpack")
        ELSE [st EXCEPT !.domain_min = vals.val[1], !.domain_max = vals.val[2]]

\* A selection that ignores the count (not the reader's).
DimensionsAlwaysOne(component) == 1
\* The dimensions a supported component count selects.
Dimensions(component) == IF component = 1 THEN 1 ELSE 2

\* The same without the attest (not the reader's).
ReadComponentsUnchecked(st, tokens) ==
    IF Len(tokens) < 2 THEN ReadError(st, "IndexError", "list index out of range")
    ELSE LET component == ParseInt(tokens[2])
         IN  IF ~component.ok
             THEN ReadError(st, "ValueError", "invalid literal for int()")
             ELSE [st EXCEPT !.dimensions = Dimensions(component.val)]

\* component = as_int_scalar(tokens[1]); attest(component in (1, 3));
\* dimensions = 1 if component == 1 else 2
ReadComponents(st, tokens) ==
    IF Len(tokens) < 2 THEN ReadError(st, "IndexError", "list index out of range")
    ELSE LET component == ParseInt(tokens[2])
         IN  IF ~component.ok
             THEN ReadError(st, "ValueError", "invalid literal for int()")
             ELSE IF component.val \notin {1, 3}
             THEN ReadError(st, "AssertionError", "Only 1 or 3 components are supported!")
             ELSE [st EXCEPT !.dimensions = Dimensions(component.val)]

\* A collector that keeps the text after "#" as it stands (not the reader's).
ReadCommentUnstripped(st, line) == [st EXCEPT !.comments = Append(@, Tail(line))]
\* comments.append(line[1:].strip())
ReadComment(st, line) == [st EXCEPT !.comments = Append(@, Strip(Tail(line)))]

\* A reader that does not know the "Length" line (not the reader's).
IsSkippedButLength(token) == token \in {KwVersion, KwOpen, KwClose}
\* The header lines the loop skips: "Version", "Length", "{" and "}".
IsSkipped(token) == token \in {KwVersion, KwLength, KwOpen, KwClose}

\* A loop body that takes a line for a comment only when its first token
\* is "#" alone (not the reader's).
ReadLineTokenHash(st, line) ==
    LET tokens == Split(line)
    IN  IF tokens[1] = Hash THEN ReadComment(st, line)
        ELSE IF tokens[1] = KwFrom THEN ReadFrom(st, tokens)
        ELSE IF tokens[1] = KwComponents THEN ReadComponents(st, tokens)
        ELSE IF IsSkipped(tokens[1]) THEN st
        ELSE [st EXCEPT !.data = Append(@, tokens)]

\* One pass of the loop body over a stripped, non-empty line.
ReadLine(st, line) ==
    IF StartsWith(line, "#") THEN ReadComment(st, line)
    ELSE LET tokens == Split(line)
         IN  IF tokens[1] = KwFrom THEN ReadFrom(st, tokens)
             ELSE IF tokens[1] = KwComponents THEN ReadComponents(st, tokens)
             ELSE IF IsSkipped(tokens[1]) THEN st
             ELSE [st EXCEPT !.data = Append(@, tokens)]

\* for line in lines: ... (an exception ends the loop)
RECURSIVE ReadLoop(_, _)
ReadLoop(st, lines) ==
    IF lines = <<>> \/ st.error # "" THEN st
    ELSE ReadLoop(ReadLine(st, Head(lines)), Tail(lines))

\* filter(None, (line.strip() for line in spi1d_file.readlines()))
StrippedLines(lines) ==
    SelectSeq([i \in 1..Len(lines) |-> Strip(lines[i])], LAMBDA l : l # <<>>)

\* table = as_float_array(data): a 2-D array of the parsed rows, the empty
\* 1-D array for no rows, a failure for ragged rows or a token that is no float.
ReadTable(data) ==
    IF data = <<>> THEN Ok([shape |-> <<0>>, flat |-> <<>>])
    ELSE IF \E i \in 1..Len(data) : Len(data[i]) # Len(data[1]) THEN Fail("ValueError")
    ELSE IF \E i \in 1..Len(data) : ~ParseFloats(data[i]).ok THEN Fail("ValueError")
    ELSE Ok(Array2([i \in 1..Len(data) |-> ParseFloats(data[i]).val]))

\* The LUT1D(...) / LUT3x1D(...) built after the loop.
ReadResult(st, table) ==
    IF st.dimensions = 1
    THEN MakeLUT("LUT1D", Squeeze(table),
                 Array1(<<st.domain_min, st.domain_max>>), st.comments)
    ELSE MakeLUT("LUT3x1D", table,
                 Array2(<<<<st.domain_min, st.domain_min, st.domain_min>>,
                          <<st.domain_max, st.domain_max, st.domain_max>>>>),
                 st.comments)

NoFile == [exists |-> FALSE, lines |-> <<>>]
FileOf(lines) == [exists |-> TRUE, lines |-> lines]

\* A reader whose file stays open when the parse fails (not the reader).
ReadCallUnclosed(f) ==
    LET st == ReadLoop(ReadStart, StrippedLines(f.lines))
        table == ReadTable(st.data)
    IN  IF ~f.exists
        THEN [ret |-> Raised("FileNotFoundError", "No such file"), io |-> <<>>]
        ELSE IF st.error # ""
        THEN [ret |-> Raised(st.error, st.message), io |-> <<EvOpen("r"), EvReadlines>>]
        ELSE IF ~table.ok
        THEN [ret |-> Raised(table.err, "could not convert string to float"),
              io |-> <<EvOpen("r"), EvReadlines>>]
        ELSE [ret |-> Returned(ReadResult(st, table.val)),
              io |-> <<EvOpen("r"), EvReadlines, EvClose>>]

\* read_LUT_SonySPI1D(path) on the file f: what the call returns or raises
\* and the I/O it performs.
ReadCall(f) ==
    LET st == ReadLoop(ReadStart, StrippedLines(f.lines))
        table == ReadTable(st.data)
        scoped == <<EvOpen("r"), EvReadlines, EvClose>>
    IN  IF ~f.exists
        THEN [ret |-> Raised("FileNotFoundError", "No such file"), io |-> <<>>]
        ELSE IF st.error # ""
        THEN [ret |-> Raised(st.error, st.message), io |-> scoped]
        ELSE IF ~table.ok
        THEN [ret |-> Raised(table.err, "could not convert string to float"),
              io |-> scoped]
        ELSE [ret |-> Returned(ReadResult(st, table.val)), io |-> scoped]

\* The file at path after the I/O events of a call.
RECURSIVE ApplyIO(_, _)
ApplyIO(f, events) ==
    IF events = <<>> THEN f
    ELSE LET e == Head(events)
         IN  ApplyIO(IF e.ev = "open" /\ e.mode = "w" THEN FileOf(<<>>)
                     ELSE IF e.ev = "write" THEN FileOf(Append(f.lines, e.text))
                     ELSE f,
                     Tail(events))

\* ------------------------------------------------------ float arithmetic
\* A float of the transfer functions is modelled as a decimal fixed-point
\* number: the integer count of 10^-FPrec units, every operation rounded
\* to the nearest unit.  np.log, np.exp and the power are computed by range
\* reduction and series, and are accurate to a few units.
FPrec == 6
One == Pow10(FPrec)
Half == Pow10(FPrec \div 2)

\* k thousandths / k units as a modelled float.
Th(k) == k * Pow10(FPrec - 3)
Num(k) == k * One

Sign(a) == IF a < 0 THEN 0 - 1 ELSE IF a > 0 THEN 1 ELSE 0

\* x * y of the non-negative x and y, by halves of FPrec digits so that no
\* intermediate product leaves the machine integers.
MulParts(x1, x0, y1, y0) ==
    x1 * y1 + (x1 * y0 + x0 * y1) \div Half
    + ((((x1 * y0 + x0 * y1) % Half) * Half + x0 * y0) + One \div 2) \div One

MulAbs(x, y) == MulParts(x \div Half, x % Half, y \div Half, y % Half)

\* a * b
FMul(a, b) == Sign(a) * Sign(b) * MulAbs(Abs(a), Abs(b))

\* The k decimal digits of r / b after the point (0 <= r < b), rounded.
RECURSIVE FracDigits(_, _, _)
FracDigits(r, b, k) ==
    IF k = 0 THEN (IF 2 * r >= b THEN 1 ELSE 0)
    ELSE ((10 * r) \div b) * Pow10(k - 1) + FracDigits((10 * r) % b, b, k - 1)

DivAbs(x, y) == (x \div y) * One + FracDigits(x % y, y, FPrec)

\* a / b
FDiv(a, b) == Sign(a) * Sign(b) * DivAbs(Abs(a), Abs(b))

DivIntAbs(x, n) == x \div n + (IF 2 * (x % n) >= n THEN 1 ELSE 0)

\* a / n for an integer n >= 1
FDivInt(a, n) == Sign(a) * DivIntAbs(Abs(a), n)

\* np.log(2)
Ln2 == 693147

\* 1/n + t2/(n + 2) + t2^2/(n + 4) + ... up to the term in 1/LnTerms
LnTerms == 9
RECURSIVE LnHorner(_, _)
LnHorner(t2, n) ==
    IF n > LnTerms THEN 0
    ELSE FDivInt(One, n) + FMul(t2, LnHorner(t2, n + 2))

\* ln(1 + t) - ln(1 - t) = 2 (t + t^3/3 + t^5/5 + ...), |t| <= 1/5
LnSeries(t) == 2 * FMul(t, LnHorner(FMul(t, t), 1))

\* np.log(x), x > 0: x = m * 2^k with 3/4 <= m < 3/2
RECURSIVE LnScaled(_, _)
LnScaled(m, k) ==
    IF 2 * m >= 3 * One THEN LnScaled(FDivInt(m, 2), k + 1)
    ELSE IF 4 * m < 3 * One THEN LnScaled(2 * m, k - 1)
    ELSE k * Ln2 + LnSeries(FDiv(m - One, m + One))

Ln(x) == LnScaled(x, 0)

\* 1 + r/n (1 + r/(n + 1) (1 + ...)) up to the term in 1/ExpTerms
ExpTerms == 8
RECURSIVE ExpHorner(_, _)
ExpHorner(r, n) ==
    IF n > ExpTerms THEN One
    ELSE One + FMul(FDivInt(r, n), ExpHorner(r, n + 1))

\* exp(r) = 1 + r + r^2/2! + ..., |r| <= ln(2)/2
ExpSeries(r) == ExpHorner(r, 1)

RECURSIVE Pow2(_)
Pow2(n) == IF n = 0 THEN 1 ELSE 2 * Pow2(n - 1)

\* e * 2^k
Scale2(e, k) == IF k >= 0 THEN e * Pow2(k) ELSE FDivInt(e, Pow2(0 - k))

\* The integer nearest to x / ln(2)
NearestLn2(x) == Sign(x) * ((2 * Abs(x) + Ln2) \div (2 * Ln2))

ExpReduced(x, k) == Scale2(ExpSeries(x - k * Ln2), k)

\* np.exp(x): x = k ln(2) + r
Exp(x) == ExpReduced(x, NearestLn2(x))

\* x ** p for x > 0
Pow(x, p) == Exp(FMul(p, Ln(x)))

\* spow(a, p): sign(a) * |a| ** p
spow(a, p) == IF a = 0 THEN 0 ELSE Sign(a) * Pow(Abs(a), p)

\* --------------------------------------------- RIMM / ROMM / ERIMM encodings
\* I_max = 2**bit_depth - 1
I_max(bit_depth) == Pow2(bit_depth) - 1

\* to_domain_1 / from_range_1 under the "reference" and "1" settings, whose
\* domain and range are both [0, 1].
to_domain_1(a) == a
from_range_1(a) == a

\* A code value cut to an integer (not np.round).
TruncCode(x) == Sign(x) * (Abs(x) \div One)

\* as_int(np.round(X_p)): nearest integer, ties to even.
RoundCode(x) == Sign(x) * RoundHalfEven(Abs(x), One)

\* E_t = 16 ** (1.8 / (1 - 1.8))
E_t_ROMM == spow(Num(16), FDiv(Th(1800), One - Th(1800)))

\* cctf_encoding_ROMMRGB(X, bit_depth, out_int)
cctf_encoding_ROMMRGB(X0, bit_depth, out_int) ==
    LET X == to_domain_1(X0)
        Im == I_max(bit_depth)
        X_p == IF X < E_t_ROMM THEN X * 16 * Im
               ELSE spow(X, FDiv(One, Th(1800))) * Im
    IN  IF out_int THEN RoundCode(X_p) ELSE from_range_1(FDivInt(X_p, Im))

\* The argument of a decoding in code value units: an integer code value
\* as it is, a float multiplied by I_max.
CodeUnits(X_p, Im, in_int) == IF in_int THEN Num(X_p) ELSE X_p * Im

\* A ROMM decoding that takes the power segment everywhere (not the
\* function).
cctf_decoding_ROMMRGB_power(X_p0, bit_depth, in_int) ==
    LET Im == I_max(bit_depth)
        X_p == CodeUnits(to_domain_1(X_p0), Im, in_int)
    IN  from_range_1(spow(FDivInt(X_p, Im), Th(1800)))

\* cctf_decoding_ROMMRGB(X_p, bit_depth, in_int)
cctf_decoding_ROMMRGB(X_p0, bit_depth, in_int) ==
    LET Im == I_max(bit_depth)
        X_p == CodeUnits(to_domain_1(X_p0), Im, in_int)
        X == IF X_p < 16 * E_t_ROMM * Im THEN FDivInt(X_p, 16 * Im)
             ELSE spow(FDivInt(X_p, Im), Th(1800))
    IN  from_range_1(X)

\* V_clip = 1.099 * spow(E_clip, 0.45) - 0.099
V_clip_RIMM(E_clip) == FMul(Th(1099), spow(E_clip, Th(450))) - Th(99)

\* q = I_max without the division by V_clip (not the function's).
q_unscaled(Im, E_clip) == Num(Im)

\* q = I_max / V_clip
q_RIMM(Im, E_clip) == FDiv(Num(Im), V_clip_RIMM(E_clip))

\* The selector with a linear segment of slope 5.5 (not the function's).
select_RIMM_steep(X, Im, E_clip) ==
    IF X < 0 THEN 0
    ELSE IF X < Th(18) THEN FMul(Th(5500), X)
    ELSE IF X >= Th(18) THEN FMul(Th(1099), spow(X, Th(450))) - Th(99)
    ELSE IF X > E_clip THEN Num(Im)
    ELSE 0

\* np.select([X < 0.0, X < 0.018, X >= 0.018, X > E_clip],
\*           [0, 4.5 * X, 1.099 * spow(X, 0.45) - 0.099, I_max]):
\* the choice of the first condition that holds, 0 when none does.
select_RIMM(X, Im, E_clip) ==
    IF X < 0 THEN 0
    ELSE IF X < Th(18) THEN FMul(Th(4500), X)
    ELSE IF X >= Th(18) THEN FMul(Th(1099), spow(X, Th(450))) - Th(99)
    ELSE IF X > E_clip THEN Num(Im)
    ELSE 0

\* cctf_encoding_RIMMRGB(X, bit_depth, out_int, E_clip)
cctf_encoding_RIMMRGB(X0, bit_depth, out_int, E_clip) ==
    LET X == to_domain_1(X0)
        Im == I_max(bit_depth)
        X_p == FMul(q_RIMM(Im, E_clip), select_RIMM(X, Im, E_clip))
    IN  IF out_int THEN RoundCode(X_p) ELSE from_range_1(FDivInt(X_p, Im))

\* cctf_decoding_RIMMRGB(X_p, bit_depth, in_int, E_clip)
cctf_decoding_RIMMRGB(X_p0, bit_depth, in_int, E_clip) ==
    LET Im == I_max(bit_depth)
        X_p == CodeUnits(to_domain_1(X_p0), Im, in_int)
        m == FDivInt(FMul(V_clip_RIMM(E_clip), X_p), Im)
        knee == cctf_encoding_RIMMRGB(Th(18), bit_depth, FALSE, E_clip)
        X == IF FDivInt(X_p, Im) < knee THEN FDiv(m, Th(4500))
             ELSE spow(FDiv(m + Th(99), Th(1099)), FDiv(One, Th(450)))
    IN  from_range_1(X)

\* E_t = np.exp(1) * E_min
E_t_ERIMM(E_min) == FMul(Exp(One), E_min)

\* (l_E_t - l_E_min) / (l_E_clip - l_E_min)
LogRatio(E_min, E_clip) ==
    FDiv(Ln(E_t_ERIMM(E_min)) - Ln(E_min), Ln(E_clip) - Ln(E_min))

\* np.select([X < 0.0, X <= E_t, X > E_t, X > E_clip],
\*           [0, I_max * ((l_E_t - l_E_min) / (l_E_clip - l_E_min)) * X / E_t,
\*            I_max * ((np.log(X) - l_E_min) / (l_E_clip - l_E_min)), I_max]):
\* the choice of the first condition that holds, 0 when none does.
select_ERIMM(X, Im, E_min, E_clip) ==
    IF X < 0 THEN 0
    ELSE IF X <= E_t_ERIMM(E_min)
         THEN FDiv(FMul(Im * LogRatio(E_min, E_clip), X), E_t_ERIMM(E_min))
    ELSE IF X > E_t_ERIMM(E_min)
         THEN Im * FDiv(Ln(X) - Ln(E_min), Ln(E_clip) - Ln(E_min))
    ELSE IF X > E_clip THEN Num(Im)
    ELSE 0

\* log_encoding_ERIMMRGB(X, bit_depth, out_int, E_min, E_clip)
log_encoding_ERIMMRGB(X0, bit_depth, out_int, E_min, E_clip) ==
    LET X == to_domain_1(X0)
        Im == I_max(bit_depth)
        X_p == select_ERIMM(X, Im, E_min, E_clip)
    IN  IF out_int THEN RoundCode(X_p) ELSE from_range_1(FDivInt(X_p, Im))

\* log_decoding_ERIMMRGB(X_p, bit_depth, in_int, E_min, E_clip)
log_decoding_ERIMMRGB(X_p0, bit_depth, in_int, E_min, E_clip) ==
    LET Im == I_max(bit_depth)
        X_p == CodeUnits(to_domain_1(X_p0), Im, in_int)
        E_t == E_t_ERIMM(E_min)
        l_E_t == Ln(E_t)
        l_E_min == Ln(E_min)
        l_E_clip == Ln(E_clip)
        X == IF X_p <= Im * FDiv(l_E_t - l_E_min, l_E_clip - l_E_min)
             THEN FMul(FDiv(l_E_clip - l_E_min, l_E_t - l_E_min),
                       FDivInt(FMul(X_p, E_t), Im))
             ELSE Exp(FMul(FDivInt(X_p, Im), l_E_clip - l_E_min) + l_E_min)
    IN  from_range_1(X)

\* ------------------------------------------------------------ planck_law
\* A float result: its sign and the natural logarithm of its magnitude.
Zero == [sign |-> 0, ln |-> 0]
Positive(l) == [sign |-> 1, ln |-> l]

\* np.log(10)
Ln10 == 2302585

\* C2 = 1.4388e-2 (m K), in nm K
c2 == 14388000

\* ln(C1 / math.pi), C1 = 3.741771e-16
LnC1OverPi == Ln(3741771) - 16 * Ln10 - Ln(3141593)

\* math.exp(x) raises OverflowError for x above ln of the largest float,
\* 709.782712...
ExpMax == 709782713

\* c2 / (n * l * t) for n = 1, l in nm, t in K; a quotient of ExpArgCap or
\* more, far above ExpMax, is held at ExpArgCap.
ExpArgCap == 2000
ExpArgument(l, t) ==
    IF c2 \div (l * t) >= ExpArgCap THEN Num(ExpArgCap) ELSE FDiv(c2, l * t)

\* ln(l) of the wavelength l nm in metres
LnWavelength(l) == Ln(Num(l)) - 9 * Ln10

\* ln(math.exp(x) - 1) = x + ln(1 - exp(-x)); exp(-x) is below a unit
\* when x is above LnExpm1Cut.
LnExpm1Cut == 14
LnExpm1(x) == IF x > Num(LnExpm1Cut) THEN x ELSE x + Ln(One - Exp(0 - x))

\* ((c1 * n ** -2 * l ** -5) / math.pi) * (math.exp(c2 / (n * l * t)) - 1) ** -1
\* under warnings.simplefilter('error'): the value, or the exception of the
\* first operation that fails.  A zero wavelength or temperature is a
\* ZeroDivisionError for Python floats and a RuntimeWarning for numpy
\* scalars.
Evaluate(l, t, numpy) ==
    IF l = 0
    THEN (IF numpy THEN Raised("RuntimeWarning", "divide by zero encountered")
          ELSE Raised("ZeroDivisionError", "0.0 cannot be raised to a negative power"))
    ELSE IF l * t = 0
    THEN (IF numpy THEN Raised("RuntimeWarning", "divide by zero encountered")
          ELSE Raised("ZeroDivisionError", "float division by zero"))
    ELSE IF ExpArgument(l, t) > ExpMax
    THEN Raised("OverflowError", "math range error")
    ELSE Returned(Positive(LnC1OverPi - 5 * LnWavelength(l) - LnExpm1(ExpArgument(l, t))))

\* An except clause for RuntimeWarning alone (not the function's).
CaughtWarningOnly(error) == error = "RuntimeWarning"

\* except (OverflowError, RuntimeWarning)
Caught(error) == error \in {"OverflowError", "RuntimeWarning"}

\* try: return ... except (OverflowError, RuntimeWarning): return 0.0
TryExcept(outcome) ==
    IF outcome.kind = "raised" /\ Caught(outcome.error) THEN Returned(Zero) ELSE outcome

\* planck_law(wavelength, temperature) with the default c1, c2 and n
planck_law(a) == TryExcept(Evaluate(a.wavelength, a.temperature, a.numpy))

\* The key of a call in the cache: the tuple of its arguments (a numpy
\* scalar and the Python float of the same value are one key).
CacheKey(a) == <<a.wavelength, a.temperature>>

\* _PLANCK_LAW_CACHE = {}
EmptyCache == [k \in {} |-> Zero]

\* memoize(_PLANCK_LAW_CACHE): the cached value of the arguments when there
\* is one, else the value of the call, which is stored; an exception of
\* the call passes through and stores nothing.
MemoizedStore(cache, key, outcome) ==
    [ret |-> outcome,
     cache |-> IF outcome.kind = "returned" THEN (key :> outcome.value) @@ cache ELSE cache,
     hit |-> FALSE]

Memoized(cache, a) ==
    IF CacheKey(a) \in DOMAIN cache
    THEN [ret |-> Returned(cache[CacheKey(a)]), cache |-> cache, hit |-> TRUE]
    ELSE MemoizedStore(cache, CacheKey(a), planck_law(a))

\* ----------------------------------------------------------------- inputs
SeqsOf(S, lo, hi) == UNION {[1..n -> S] : n \in lo..hi}

\* 0.12345678: more fractional digits than the default precision keeps.
Fine == Milli(123) + 45678

\* Table samples: -0.125 (negative, a tie at two decimals) and 0.12345678.
\* Every value that is a rounding tie at some precision is a dyadic
\* fraction, which a binary float holds exactly, so that the decimal
\* rounding of the model is the rounding of the float.
SampleValues == {Milli(0 - 125), Fine}
SampleRows == {<<Milli(0), Milli(125), Milli(375)>>, <<Milli(1000), Milli(0 - 500), Fine>>}
SampleRows2 == <<<<Milli(0), Milli(125), Milli(375)>>, <<Milli(1000), Milli(0 - 500), Fine>>>>

Tables1D == {Array1(t) : t \in SeqsOf(SampleValues, 2, MaxSamples)}
Tables3x1D == {Array2(t) : t \in SeqsOf(SampleRows, 2, MaxSamples)}

Uniform(lo, hi) == Array2(<<<<lo, lo, lo>>, <<hi, hi, hi>>>>)

\* Implicit domains [min, max] with min < max, and one explicit domain.
ImplicitDomains1D == {Array1(<<Milli(0 - 100), Milli(1500)>>), Array1(<<Fine, Milli(1000)>>)}
ExplicitDomain1D == Array1(<<Milli(0), Milli(500), Milli(1000)>>)

\* Uniform implicit domains, non-uniform ones ([[0, 0, 0], [1, 1, 2]] has
\* three distinct values) and one explicit domain (three rows of knots).
UniformDomains == {Uniform(Milli(0 - 100), Milli(1500)), Uniform(Fine, Milli(1000))}
NonUniformDomain ==
    Array2(<<<<Milli(0), Milli(0), Milli(0)>>, <<Milli(1000), Milli(1000), Milli(2000)>>>>)
\* Four distinct values: [[0, 0, -0.1], [1, 1, 2]].
NonUniformDomain4 ==
    Array2(<<<<Milli(0), Milli(0), Milli(0 - 100)>>, <<Milli(1000), Milli(1000), Milli(2000)>>>>)
ExplicitDomain3x1D ==
    Array2(<<<<Milli(0), Milli(0), Milli(0)>>, <<Milli(500), Milli(500), Milli(500)>>,
             <<Milli(1000), Milli(1000), Milli(1000)>>>>)

\* Single-line comments: "test" and " a b " (blanks around and inside).
CommentTexts == {<<"t", "e", "s", "t">>, <<" ", "a", " ", "b", " ">>}
CommentLists == SeqsOf(CommentTexts, 0, MaxComments)

\* A LUT3D: neither a LUT1D nor a LUT3x1D (its table is never read).
TableLUT3D == [shape |-> <<2, 2, 2, 3>>, flat |-> [i \in 1..24 |-> Milli(0)]]

LUTs ==
    {MakeLUT("LUT1D", t, d, c) :
        t \in Tables1D, d \in ImplicitDomains1D \cup {ExplicitDomain1D}, c \in CommentLists}
    \cup
    {MakeLUT("LUT3x1D", t, d, c) :
        t \in Tables3x1D,
        d \in UniformDomains \cup {NonUniformDomain, NonUniformDomain4, ExplicitDomain3x1D},
        c \in CommentLists}
    \cup
    {MakeLUT("LUT3D", TableLUT3D, d, c) :
        d \in {Uniform(Milli(0), Milli(1000)), ExplicitDomain3x1D}, c \in {<<>>}}

\* The decimals argument: absent (<<>>) or given.
DecimalsArgs == {<<>>} \cup {<<d>> : d \in 0..MaxDecimals}

\* The LUT1D of the docstring and of the parse scenario: table [0.0, 1.0],
\* domain [-0.1, 1.5], comment "test".
ExampleLUT ==
    MakeLUT("LUT1D", Array1(<<Milli(0), Milli(1000)>>),
            Array1(<<Milli(0 - 100), Milli(1500)>>), <<<<"t", "e", "s", "t">>>>)

\* A LUT3x1D the writer accepts, and LUTs it refuses for each precondition.
AcceptedLUT3x1D ==
    MakeLUT("LUT3x1D", Array2(SampleRows2), Uniform(Fine, Milli(1000)),
            <<<<" ", "a", " ", "b", " ">>>>)
ExplicitLUT1D ==
    MakeLUT("LUT1D", Array1(<<Milli(0 - 125), Fine>>), ExplicitDomain1D, <<>>)
OtherClassLUT ==
    MakeLUT("LUT3D", TableLUT3D, Uniform(Milli(0), Milli(1000)), <<>>)
NonUniformLUT3x1D ==
    MakeLUT("LUT3x1D", Array2(SampleRows2), NonUniformDomain, <<>>)

\* LUT3x1Ds over every choice of a [min, max] interval per channel among
\* [0, 0.5], [0, 1] and [0.5, 1]: one interval shared by the three channels,
\* or two or three different ones.
ChannelIntervals ==
    {<<Milli(0), Milli(500)>>, <<Milli(0), Milli(1000)>>, <<Milli(500), Milli(1000)>>}
PerChannelDomains ==
    {Array2(<<<<r[1], g[1], b[1]>>, <<r[2], g[2], b[2]>>>>) :
        r \in ChannelIntervals, g \in ChannelIntervals, b \in ChannelIntervals}
PerChannelLUTs == {MakeLUT("LUT3x1D", Array2(SampleRows2), d, <<>>) : d \in PerChannelDomains}

\* LUTSequences of one to three elements: each first element with each
\* choice of later elements.
SequenceFirsts ==
    {ExampleLUT, AcceptedLUT3x1D, ExplicitLUT1D, OtherClassLUT, NonUniformLUT3x1D}
SequenceLaters ==
    {<<>>, <<AcceptedLUT3x1D>>, <<ExampleLUT>>, <<OtherClassLUT, ExampleLUT>>,
     <<ExplicitLUT1D, AcceptedLUT3x1D>>}
LUTSequences ==
    {LUTSequence(<<first>> \o later) : first \in SequenceFirsts, later \in SequenceLaters}

\* ------------------------------------------------------------ given files
LnVersion(n) == KwVersion \o Space \o Digits(n)
LnFrom(lo, hi) == KwFrom \o Space \o lo \o Space \o hi
LnLength(n) == KwLength \o Space \o Digits(n)
LnComponents(n) == KwComponents \o Space \o Digits(n)

\* "Version 1", "From -0.1 1.5", "Length 2", "Components 1", "{", " 0.0",
\* " 1.0", "}", "# test"
ExampleLines ==
    <<LnVersion(1),
      LnFrom(<<"-", "0", ".", "1">>, <<"1", ".", "5">>),
      LnLength(2),
      LnComponents(1),
      KwOpen,
      <<" ", "0", ".", "0">>,
      <<" ", "1", ".", "0">>,
      KwClose,
      <<"#", " ", "t", "e", "s", "t">>>>

\* The same with three components: rows " 0.0 0.25 -0.5" and " 1.0 1 .75".
Example3Lines ==
    <<LnVersion(1),
      LnFrom(<<"-", "0", ".", "1">>, <<"1", ".", "5">>),
      LnLength(2),
      LnComponents(3),
      KwOpen,
      <<" ", "0", ".", "0", " ", "0", ".", "2", "5", " ", "-", "0", ".", "5">>,
      <<" ", "1", ".", "0", " ", "1", " ", ".", "7", "5">>,
      KwClose,
      <<"#", " ", "t", "e", "s", "t">>>>

\* Comment, blank and whitespace-only lines at every place of the file:
\* "# first", "Version 1", "  #  second one \t", "From 0 2", "#From 5 6",
\* "", "Length 3", "\t", "Components 1", "#", "{", " 0.5", "   # 0.75",
\* "# Components 7", " 1.5", " 2", "}", "#last".
CommentedLines ==
    <<<<"#", " ", "f", "i", "r", "s", "t">>,
      LnVersion(1),
      <<" ", " ", "#", " ", " ", "s", "e", "c", "o", "n", "d", " ", "o", "n", "e", " ", "\t">>,
      LnFrom(<<"0">>, <<"2">>),
      Hash \o LnFrom(<<"5">>, <<"6">>),
      <<>>,
      LnLength(3),
      <<"\t">>,
      LnComponents(1),
      Hash,
      KwOpen,
      <<" ", "0", ".", "5">>,
      <<" ", " ", " ", "#", " ", "0", ".", "7", "5">>,
      Hash \o Space \o LnComponents(7),
      <<" ", "1", ".", "5">>,
      <<" ", "2">>,
      KwClose,
      <<"#", "l", "a", "s", "t">>>>

InsertAt(lines, k, l) == SubSeq(lines, 1, k) \o <<l>> \o SubSeq(lines, k + 1, Len(lines))
WithLine(lines, i, l) == [lines EXCEPT ![i] = l]
Without(lines, i) == SubSeq(lines, 1, i - 1) \o SubSeq(lines, i + 1, Len(lines))

BaseLines == {ExampleLines, Example3Lines}

\* A "Components" line with an unsupported count at any place of a file.
BadComponentsLines ==
    UNION {{InsertAt(b, k, LnComponents(n)) : k \in 0..Len(b), n \in {0, 2, 4}} :
           b \in BaseLines \cup {CommentedLines}}

\* Other numbers on, or no, "Version" (line 1) and "Length" (line 3) lines.
HeaderVariantLines ==
    UNION {{WithLine(b, 3, LnLength(n)) : n \in {0, 1, 5, 13}}
           \cup {WithLine(b, 1, LnVersion(n)) : n \in {0, 2}}
           \cup {Without(b, 3), Without(b, 1), Without(Without(b, 3), 1)} :
           b \in BaseLines}

\* Line i of the file moved to stand after k of the other lines.
Moved(lines, i, k) == InsertAt(Without(lines, i), k, lines[i])

\* The "Version", "From", "Length", "Components", "{" and "}" lines (lines 1
\* to 5 and 8) of the example files, each at every place of the file: before
\* the header, between and after the data rows, after the comment.
HeaderLineNumbers == {1, 2, 3, 4, 5, 8}
HeaderMovedLines ==
    UNION {{Moved(b, i, k) : i \in HeaderLineNumbers, k \in 0..(Len(b) - 1)} :
           b \in BaseLines}

\* A second "From" line, "From 0 2", at every place of the example files;
\* a second "Components" line of the other supported count at every place
\* before the file's own (after it, the count would not be that of the rows).
RepeatedHeaderLines ==
    UNION {{InsertAt(b, k, LnFrom(<<"0">>, <<"2">>)) : k \in 0..Len(b)} : b \in BaseLines}
    \cup {InsertAt(ExampleLines, k, LnComponents(3)) : k \in 0..3}
    \cup {InsertAt(Example3Lines, k, LnComponents(1)) : k \in 0..3}

\* No "From" line; no "Components" line over one-column rows; neither.
AbsentHeaderLines ==
    {Without(ExampleLines, 2), Without(Example3Lines, 2), Without(ExampleLines, 4),
     Without(Without(ExampleLines, 4), 2)}

GivenFiles ==
    {FileOf(l) : l \in BaseLines \cup {CommentedLines} \cup BadComponentsLines
                       \cup HeaderVariantLines \cup HeaderMovedLines
                       \cup RepeatedHeaderLines \cup AbsentHeaderLines}

\* The caller's inputs: every LUT and decimals with the example file on
\* disk, and every given file with the example LUT.
Inputs ==
    {<<L, dec, FileOf(ExampleLines)>> : L \in LUTs, dec \in DecimalsArgs}
    \cup {<<ExampleLUT, <<2>>, f>> : f \in GivenFiles}
    \cup {<<L, dec, FileOf(ExampleLines)>> : L \in LUTSequences, dec \in {<<>>, <<2>>}}
    \cup {<<L, dec, FileOf(ExampleLines)>> : L \in PerChannelLUTs, dec \in {<<>>, <<1>>}}

\* ------------------------------------------- transfer function arguments
\* bit_depth arguments: the default 8, and 10.
BitDepths == {8, 10}

\* Linear values around every breakpoint of the three encodings: negative
\* values, 0, the ROMM E_t = 2^-9 = 0.001953..., the ERIMM E_t = e * E_min,
\* the RIMM knee 0.018, the mid-grey 0.18 and 1; 0.00625 encodes to the
\* ROMM 8-bit code value 25.5, a rounding tie.
BaseXs ==
    {Th(0 - 50), Th(0 - 1), 0, 977, Th(1), 1953, Th(2), 2718, Th(3), 6250,
     Th(17), Th(18), Th(19), Th(180), Th(500), Num(1)}

\* E_clip arguments of RIMM (default 2.0) and (E_min, E_clip) arguments of
\* ERIMM (default 0.001, 316.2).
E_clips_RIMM == {Th(500), Num(1), Num(2)}
E_ranges_ERIMM == {<<Th(1), Th(316200)>>, <<Th(10), Num(100)>>}

\* The linear values tried with one choice of the other arguments: the base
\* values, and the values at, just below and above E_clip.
XsOf(cctf, E_min, E_clip) ==
    IF cctf = "ROMM" THEN BaseXs \cup {Num(2)}
    ELSE IF cctf = "RIMM"
    THEN BaseXs \cup {E_clip - Th(100), E_clip, E_clip + Th(100), 3 * (E_clip \div 2)}
    ELSE BaseXs \cup {E_t_ERIMM(E_min), E_clip - Th(100), E_clip, E_clip + Th(100),
                      13 * (E_clip \div 10)}

CallArgs(cctf, X, bit_depth, int, E_min, E_clip) ==
    [cctf |-> cctf, X |-> X, bit_depth |-> bit_depth, int |-> int,
     E_min |-> E_min, E_clip |-> E_clip]

\* The arguments of the calls tried: int is out_int of the encoding and
\* in_int of the decoding.
ArgsSet ==
    {CallArgs("ROMM", X, b, i, 0, 0) :
        X \in XsOf("ROMM", 0, 0), b \in BitDepths, i \in BOOLEAN}
    \cup UNION {{CallArgs("RIMM", X, b, i, 0, c) :
                    X \in XsOf("RIMM", 0, c), b \in BitDepths, i \in BOOLEAN} :
                c \in E_clips_RIMM}
    \cup UNION {{CallArgs("ERIMM", X, b, i, r[1], r[2]) :
                    X \in XsOf("ERIMM", r[1], r[2]), b \in BitDepths, i \in BOOLEAN} :
                r \in E_ranges_ERIMM}

NoArgs == CallArgs("none", 0, 8, FALSE, 0, 0)

\* The encoding function of a call on its arguments.
EncodeOf(a) ==
    IF a.cctf = "ROMM" THEN cctf_encoding_ROMMRGB(a.X, a.bit_depth, a.int)
    ELSE IF a.cctf = "RIMM"
    THEN cctf_encoding_RIMMRGB(a.X, a.bit_depth, a.int, a.E_clip)
    ELSE log_encoding_ERIMMRGB(a.X, a.bit_depth, a.int, a.E_min, a.E_clip)

\* The matching decoding function on the value v.
DecodeOf(a, v) ==
    IF a.cctf = "ROMM" THEN cctf_decoding_ROMMRGB(v, a.bit_depth, a.int)
    ELSE IF a.cctf = "RIMM"
    THEN cctf_decoding_RIMMRGB(v, a.bit_depth, a.int, a.E_clip)
    ELSE log_decoding_ERIMMRGB(v, a.bit_depth, a.int, a.E_min, a.E_clip)

\* ---------------------------------------------------- planck_law arguments
\* Wavelengths in nm and temperatures in K: 500 nm at 5500 K is the example
\* of the docstring; at 26 K, c2 / (l * t) is 1106.8 for 500 nm and 718.7
\* for 770 nm, above the overflow threshold of math.exp, and 709.5 for
\* 780 nm, below it; 0 nm and 0 K are zero products.
Wavelengths == {0, 500, 770, 780}
Temperatures == {0, 26, 5500}
PlanckArgs ==
    [wavelength : Wavelengths, temperature : Temperatures, numpy : BOOLEAN]
NoPlanckArgs == [wavelength |-> 0, temperature |-> 0, numpy |-> FALSE]

\* ---------------------------------------------------------- state machine
VARIABLES
    LUT,        \* the LUT the caller hands to write_LUT_SonySPI1D
    decimals,   \* the decimals argument: <<>> when left to its default
    given,      \* the .spi1d file another program may put at path
    file,       \* the file at path
    origin,     \* who wrote the file at path: "none", "write" or "put"
    last,       \* the last call: "none", "write", "read" or "put"
    ret,        \* what the last call returned or raised
    io,         \* the I/O events of the last call
    warned,     \* the warnings the last call emitted
    args,       \* the arguments of a transfer function call
    stage,      \* "idle", "start", "encoded" or "decoded"
    encoded,    \* what the encoding returned
    decoded,    \* what the decoding of encoded returned
    scale,      \* the ambient domain-range scale setting
    saved,      \* the settings the open domain_range_scale scopes restore
    pc,         \* the position of a cctf_decoding_RIMMRGB call
    trace,      \* the conversions of the call, each with the setting it ran under
    outer,      \* the caller's setting and scopes when the call began
    nestedFails, \* whether the nested encoding call raises
    PLANCK_LAW_CACHE, \* the cache of the memoized planck_law
    planckArgs, \* the arguments of the last planck_law call
    planckRet,  \* what the last planck_law call returned or raised
    cacheHit,   \* whether the last planck_law call was answered from the cache
    calls       \* the number of planck_law calls made

lutVars == <<LUT, decimals, given, file, origin, last, ret, io, warned>>
cctfVars == <<args, stage, encoded, decoded>>
scaleVars == <<scale, saved, pc, trace, outer, nestedFails>>
planckVars == <<PLANCK_LAW_CACHE, planckArgs, planckRet, cacheHit, calls>>
vars == <<lutVars, cctfVars, scaleVars, planckVars>>

\* The settings of the ambient domain-range scale.
Scales == {"reference", "1", "ignore"}

\* No planck_law call was made.
PlanckIdle ==
    /\ PLANCK_LAW_CACHE = EmptyCache /\ planckArgs = NoPlanckArgs
    /\ planckRet = [kind |-> "none"] /\ cacheHit = FALSE /\ calls = 0

\* No decoding call is in progress under the default setting.
ScaleIdle ==
    /\ scale = "reference" /\ saved = <<>> /\ pc = "idle" /\ trace = <<>>
    /\ outer = [scale |-> "reference", saved |-> <<>>]
    /\ nestedFails = FALSE

NoReturn == [kind |-> "none"]

Init ==
    /\ \E inp \in Inputs : LUT = inp[1] /\ decimals = inp[2] /\ given = inp[3]
    /\ file = NoFile
    /\ origin = "none"
    /\ last = "none"
    /\ ret = NoReturn
    /\ io = <<>>
    /\ warned = <<>>
    /\ args = NoArgs /\ stage = "idle" /\ encoded = 0 /\ decoded = 0
    /\ ScaleIdle
    /\ PlanckIdle

\* write_LUT_SonySPI1D(LUT, path, decimals)
Write ==
    LET call == WriteCall(LUT, decimals)
    IN  /\ file' = ApplyIO(file, call.io)
        /\ origin' = IF call.io # <<>> THEN "write" ELSE origin
        /\ last' = "write"
        /\ ret' = call.ret
        /\ io' = call.io
        /\ warned' = call.warnings
        /\ UNCHANGED <<LUT, decimals, given>>
        /\ UNCHANGED <<cctfVars, scaleVars, planckVars>>

\* read_LUT_SonySPI1D(path)
Read ==
    LET call == ReadCall(file)
    IN  /\ file' = ApplyIO(file, call.io)
        /\ last' = "read"
        /\ ret' = call.ret
        /\ io' = call.io
        /\ warned' = <<>>
        /\ UNCHANGED <<LUT, decimals, given, origin>>
        /\ UNCHANGED <<cctfVars, scaleVars, planckVars>>

\* Another program stores the given file at path.
PutFile ==
    /\ file' = given
    /\ origin' = "put"
    /\ last' = "put"
    /\ ret' = NoReturn
    /\ io' = <<>>
    /\ warned' = <<>>
    /\ UNCHANGED <<LUT, decimals, given>>
    /\ UNCHANGED <<cctfVars, scaleVars, planckVars>>

Next == Write \/ Read \/ PutFile

Spec == Init /\ [][Next]_vars

\* ------------------------------------------- transfer function calls
\* No LUT call is made; one encoding call with arguments of ArgsSet, then
\* the decoding of what it returned.
InitCCTF ==
    /\ LUT = ExampleLUT /\ decimals = <<>> /\ given = NoFile
    /\ file = NoFile /\ origin = "none" /\ last = "none"
    /\ ret = NoReturn /\ io = <<>> /\ warned = <<>>
    /\ args \in ArgsSet
    /\ stage = "start"
    /\ encoded = 0
    /\ decoded = 0
    /\ ScaleIdle
    /\ PlanckIdle

\* cctf_encoding_ROMMRGB / cctf_encoding_RIMMRGB / log_encoding_ERIMMRGB
Encode ==
    /\ stage = "start"
    /\ encoded' = EncodeOf(args)
    /\ stage' = "encoded"
    /\ UNCHANGED <<args, decoded>>
    /\ UNCHANGED <<lutVars, scaleVars, planckVars>>

\* cctf_decoding_ROMMRGB / cctf_decoding_RIMMRGB / log_decoding_ERIMMRGB
Decode ==
    /\ stage = "encoded"
    /\ decoded' = DecodeOf(args, encoded)
    /\ stage' = "decoded"
    /\ UNCHANGED <<args, encoded>>
    /\ UNCHANGED <<lutVars, scaleVars, planckVars>>

NextCCTF == Encode \/ Decode

SpecCCTF == InitCCTF /\ [][NextCCTF]_vars

\* ------------------------- cctf_decoding_RIMMRGB under the ambient scale
\* with domain_range_scale(s): the scope saves the ambient setting and sets
\* s; leaving the scope, by its end or by an exception, restores the saved
\* setting.
EnterScope(s) == scale' = s /\ saved' = Append(saved, scale)
ExitScope == scale' = saved[Len(saved)] /\ saved' = SubSeq(saved, 1, Len(saved) - 1)

\* A conversion between the caller's convention and [0, 1], with the
\* setting it runs under.
Conversion(op) == [op |-> op, scale |-> scale]

\* The return statement placed inside the "with" block (not the function's).
ReturnPointInside == "nested_done"

\* Where "return as_float(from_range_1(X))" runs: after the "with" block.
ReturnPoint == "after"

\* The code values decoded: of the linear values 0.017, 0.018, 0.18 and 1.
ScaleArgs ==
    {CallArgs("RIMM", X, 8, i, 0, Num(2)) : X \in {Th(17), Th(18), Th(180), Num(1)},
                                            i \in BOOLEAN}

\* A caller under any setting, itself inside zero to two scopes, calls
\* cctf_decoding_RIMMRGB on an encoded value.
InitScale ==
    /\ LUT = ExampleLUT /\ decimals = <<>> /\ given = NoFile
    /\ file = NoFile /\ origin = "none" /\ last = "none"
    /\ ret = NoReturn /\ io = <<>> /\ warned = <<>>
    /\ args \in ScaleArgs
    /\ stage = "encoded"
    /\ encoded = EncodeOf(args)
    /\ decoded = 0
    /\ scale \in Scales
    /\ saved \in {<<>>, <<"reference">>, <<"reference", "ignore">>}
    /\ pc = "called"
    /\ trace = <<>>
    /\ outer = [scale |-> scale, saved |-> saved]
    /\ nestedFails \in BOOLEAN
    /\ PlanckIdle

\* X_p = to_domain_1(X_p) ... m = V_clip * X_p / I_max
DecodeBegin ==
    /\ pc = "called"
    /\ trace' = Append(trace, Conversion("to_domain_1"))
    /\ pc' = "converted"
    /\ UNCHANGED <<scale, saved, outer, nestedFails>>
    /\ UNCHANGED <<lutVars, cctfVars, planckVars>>

\* with domain_range_scale("ignore"):
EnterIgnore ==
    /\ pc = "converted"
    /\ EnterScope("ignore")
    /\ pc' = "inside"
    /\ UNCHANGED <<trace, outer, nestedFails>>
    /\ UNCHANGED <<lutVars, cctfVars, planckVars>>

\* cctf_encoding_RIMMRGB(0.018, bit_depth, E_clip=E_clip) inside np.where:
\* its to_domain_1 and from_range_1 run under the ambient setting.
NestedEncode ==
    /\ pc = "inside"
    /\ ~nestedFails
    /\ trace' = trace \o <<Conversion("nested to_domain_1"),
                           Conversion("nested from_range_1")>>
    /\ pc' = "nested_done"
    /\ UNCHANGED <<scale, saved, outer, nestedFails>>
    /\ UNCHANGED <<lutVars, cctfVars, planckVars>>

\* The nested call raises after its to_domain_1.
NestedRaise ==
    /\ pc = "inside"
    /\ nestedFails
    /\ trace' = Append(trace, Conversion("nested to_domain_1"))
    /\ pc' = "raising"
    /\ UNCHANGED <<scale, saved, outer, nestedFails>>
    /\ UNCHANGED <<lutVars, cctfVars, planckVars>>

\* The end of the "with" block, reached normally or by the exception.
ExitIgnore ==
    /\ pc \in {"nested_done", "raising"}
    /\ ExitScope
    /\ pc' = IF pc = "raising" THEN "raised" ELSE "after"
    /\ UNCHANGED <<trace, outer, nestedFails>>
    /\ UNCHANGED <<lutVars, cctfVars, planckVars>>

\* return as_float(from_range_1(X))
DecodeReturn ==
    /\ pc = ReturnPoint
    /\ trace' = Append(trace, Conversion("from_range_1"))
    /\ decoded' = DecodeOf(args, encoded)
    /\ stage' = "decoded"
    /\ pc' = "returned"
    /\ UNCHANGED <<scale, saved, outer, nestedFails, args, encoded>>
    /\ UNCHANGED <<lutVars, planckVars>>

NextScale ==
    DecodeBegin \/ EnterIgnore \/ NestedEncode \/ NestedRaise \/ ExitIgnore \/ DecodeReturn

SpecScale == InitScale /\ [][NextScale]_vars

\* ------------------------------------------------------ planck_law calls
\* No LUT or transfer function call is made; the cache is empty as at import.
InitPlanck ==
    /\ LUT = ExampleLUT /\ decimals = <<>> /\ given = NoFile
    /\ file = NoFile /\ origin = "none" /\ last = "none"
    /\ ret = NoReturn /\ io = <<>> /\ warned = <<>>
    /\ args = NoArgs /\ stage = "idle" /\ encoded = 0 /\ decoded = 0
    /\ ScaleIdle
    /\ PlanckIdle

\* planck_law(wavelength, temperature), through its memoizing wrapper
CallPlanck ==
    /\ calls < MaxCalls
    /\ \E a \in PlanckArgs :
           /\ planckArgs' = a
           /\ planckRet' = Memoized(PLANCK_LAW_CACHE, a).ret
           /\ PLANCK_LAW_CACHE' = Memoized(PLANCK_LAW_CACHE, a).cache
           /\ cacheHit' = Memoized(PLANCK_LAW_CACHE, a).hit
    /\ calls' = calls + 1
    /\ UNCHANGED <<lutVars, cctfVars, scaleVars>>

NextPlanck == CallPlanck

SpecPlanck == InitPlanck /\ [][NextPlanck]_vars

\* ================================================================= claims
\* The file at path is the one Write produced from LUT and decimals, and
\* the last call read it back.
ReadBack == last = "read" /\ origin = "write" /\ LUT.cls # "LUTSequence"

\* r is v rounded to d fractional digits: a multiple of 10^-d nearest to v.
IsRounded(r, v, d) ==
    LET u == Pow10(Prec - d)
    IN  r % u = 0 /\ 2 * Abs(r - v) <= u

\* a is the array b with every element rounded to d fractional digits.
IsRoundedArray(a, b, d) ==
    /\ a.shape = b.shape
    /\ Len(a.flat) = Len(b.flat)
    /\ \A i \in 1..Len(b.flat) : IsRounded(a.flat[i], b.flat[i], d)

\* C1: reading back the file written from a LUT1D or LUT3x1D with an
\* implicit, uniform domain returns a LUT of the same class whose table has
\* the same shape and, sample by sample in the same order, the original
\* value rounded to the decimals of the write.
C1_TableRoundTrip ==
    ReadBack =>
        /\ ret.kind = "returned"
        /\ ret.value.cls = LUT.cls
        /\ IsRoundedArray(ret.value.table, LUT.table, EffectiveDecimals(decimals))

\* A LUT3x1D written with no decimals is read back with its samples changed
\* by the rounding (0.125 -> 0, 0.375 -> 0, -0.5 -> -0, 0.12345678 -> 0).
C1_Witness ==
    /\ ReadBack
    /\ LUT.cls = "LUT3x1D"
    /\ decimals = <<0>>
    /\ ret.kind = "returned"
    /\ ret.value.table # LUT.table
    /\ RowCount(ret.value.table) = MaxSamples

\* C2 as stated: reading back returns exactly the domain of the LUT.
C2_DomainRoundTripExact ==
    ReadBack => ret.kind = "returned" /\ ret.value.domain = LUT.domain

\* C2, amended: reading back returns a domain of the same shape ([min, max]
\* for a LUT1D, 2x3 for a LUT3x1D) whose values are the values of the
\* original domain rounded to the decimals of the write.
C2_DomainRoundTrip ==
    ReadBack =>
        /\ ret.kind = "returned"
        /\ IsRoundedArray(ret.value.domain, LUT.domain, EffectiveDecimals(decimals))

\* A LUT3x1D with domain [-0.1, 1.5] per channel written with one decimal
\* is read back with the same 2x3 domain; with no decimals, with [0, 2].
C2_Witness ==
    /\ ReadBack
    /\ LUT.cls = "LUT3x1D"
    /\ LUT.domain = Uniform(Milli(0 - 100), Milli(1500))
    /\ decimals = <<0>>
    /\ ret.kind = "returned"
    /\ ret.value.domain = Uniform(Milli(0), Milli(2000))

\* C3 as stated: reading back returns exactly the comments of the LUT.
C3_CommentsRoundTripExact ==
    ReadBack => ret.kind = "returned" /\ ret.value.comments = LUT.comments

\* C3, amended: reading back returns, in the same order and number, the
\* comments of the LUT with their leading and trailing whitespace removed.
C3_CommentsRoundTrip ==
    ReadBack =>
        /\ ret.kind = "returned"
        /\ ret.value.comments = [i \in 1..Len(LUT.comments) |-> Strip(LUT.comments[i])]

\* Two different comments, the first with blanks around it, are read back
\* in order.
C3_Witness ==
    /\ ReadBack
    /\ LUT.comments = <<<<" ", "a", " ", "b", " ">>, <<"t", "e", "s", "t">>>>
    /\ ret.kind = "returned"
    /\ ret.value.comments = <<<<"a", " ", "b">>, <<"t", "e", "s", "t">>>>

\* The last call was a write that returned.
WroteOk == last = "write" /\ ret.kind = "returned" /\ LUT.cls # "LUTSequence"

DomainValues(L) == {L.domain.flat[i] : i \in 1..Len(L.domain.flat)}
MinOf(S) == CHOOSE v \in S : \A w \in S : v <= w
MaxOf(S) == CHOOSE v \in S : \A w \in S : w <= v

\* The LUT breaks a precondition of the writer: an explicit domain, a class
\* other than LUT1D and LUT3x1D, or a LUT3x1D whose flattened domain has
\* not exactly two distinct values.
Rejected(L) ==
    /\ L.cls # "LUTSequence"
    /\ \/ IsDomainExplicit(L)
       \/ L.cls \notin {"LUT1D", "LUT3x1D"}
       \/ L.cls = "LUT3x1D" /\ Cardinality(DomainValues(L)) # 2

\* C4: a write of a LUT that breaks a precondition raises, performs no I/O
\* (the file is not opened) and leaves the file at path as it was: absent
\* when it was absent, unmodified when it existed.
C4_WriteFailsBeforeIO ==
    [][(last' = "write" /\ Rejected(LUT)) =>
          (ret'.kind = "raised" /\ io' = <<>> /\ file' = file)]_vars

\* The write of a LUT3x1D with domain [[0, 0, 0], [1, 1, 2]] was refused
\* while a file put by another program is at path, and that file is intact.
C4_Witness ==
    /\ last = "write"
    /\ LUT.cls = "LUT3x1D"
    /\ LUT.domain = NonUniformDomain
    /\ ret.kind = "raised"
    /\ ret.message = "Non-uniform \"LUT\" domain is unsupported!"
    /\ origin = "put"
    /\ file = given
    /\ file.exists

RECURSIVE JoinSp(_)
JoinSp(tokens) ==
    IF tokens = <<>> THEN <<>>
    ELSE IF Len(tokens) = 1 THEN tokens[1]
    ELSE tokens[1] \o Space \o JoinSp(Tail(tokens))

\* tok is v printed fixed-point with exactly d fractional digits: an
\* optional "-", the integer digits, and "." with d digits unless d = 0.
IsFixedPointOf(tok, v, d) ==
    LET neg == StartsWith(tok, "-")
        body == IF neg THEN Tail(tok) ELSE tok
        dot == DotAt(body)
        ip == IF dot = 0 THEN body ELSE SubSeq(body, 1, dot - 1)
        fp == IF dot = 0 THEN <<>> ELSE SubSeq(body, dot + 1, Len(body))
    IN  /\ neg = (v < 0)
        /\ (dot = 0) = (d = 0)
        /\ Len(fp) = d
        /\ Len(ip) >= 1 /\ IsDigits(ip) /\ IsDigits(fp)
        /\ (Len(ip) = 1 \/ ip[1] # "0")
        /\ IsRounded(ParseFloat(tok).val, v, d)

\* line is a leading space and the values vals, each printed fixed-point
\* with d fractional digits, separated by single spaces.
IsRowLine(line, vals, d) ==
    LET toks == Split(line)
    IN  /\ line = Space \o JoinSp(toks)
        /\ Len(toks) = Len(vals)
        /\ \A c \in 1..Len(vals) : IsFixedPointOf(toks[c], vals[c], d)

\* C5: after a successful write the file holds exactly, in this order:
\* "Version 1"; "From <min> <max>"; "Length <N>"; "Components <1|3>"; "{";
\* one line per table row in table order (a leading space and one value for
\* a LUT1D, three space-separated values for a LUT3x1D); "}"; one
\* "# <comment>" line per comment in order; every domain and table number
\* is fixed-point with the decimals of the call (7 by default); and each
\* line is one write between the opening and the closing of the file.
C5_EmissionOrder ==
    WroteOk =>
        LET d == IF decimals = <<>> THEN 7 ELSE decimals[1]
            n == RowCount(LUT.table)
            k == Len(LUT.comments)
            w == IF LUT.cls = "LUT1D" THEN 1 ELSE 3
            l == file.lines
            lo == IF LUT.cls = "LUT1D" THEN LUT.domain.flat[1] ELSE MinOf(DomainValues(LUT))
            hi == IF LUT.cls = "LUT1D" THEN LUT.domain.flat[2] ELSE MaxOf(DomainValues(LUT))
        IN  /\ Len(l) = 6 + n + k
            /\ l[1] = KwVersion \o <<" ", "1">>
            /\ l[2] = KwFrom \o Space \o JoinSp(Tail(Split(l[2])))
            /\ Len(Split(l[2])) = 3
            /\ IsFixedPointOf(Split(l[2])[2], lo, d)
            /\ IsFixedPointOf(Split(l[2])[3], hi, d)
            /\ l[3] = KwLength \o Space \o Digits(n)
            /\ l[4] = KwComponents \o Space \o Digits(w)
            /\ l[5] = <<"{">>
            /\ \A i \in 1..n :
                   IsRowLine(l[5 + i], SubSeq(LUT.table.flat, (i - 1) * w + 1, i * w), d)
            /\ l[6 + n] = <<"}">>
            /\ \A j \in 1..k : l[6 + n + j] = <<"#", " ">> \o LUT.comments[j]
            /\ io = <<EvOpen("w")>> \o [i \in 1..Len(l) |-> EvWrite(l[i])] \o <<EvClose>>

\* A LUT3x1D with two different comments was written with the default
\* decimals: "From -0.1000000 1.5000000".
C5_Witness ==
    /\ WroteOk
    /\ LUT.cls = "LUT3x1D"
    /\ decimals = <<>>
    /\ Len(LUT.comments) = 2
    /\ LUT.comments[1] # LUT.comments[2]
    /\ RowCount(LUT.table) = MaxSamples
    /\ file.lines[2] =
           LnFrom(<<"-", "0", ".", "1", "0", "0", "0", "0", "0", "0">>,
                  <<"1", ".", "5", "0", "0", "0", "0", "0", "0">>)

\* Index of the line of the file whose first token is kw.
LineOf(lines, kw) ==
    CHOOSE i \in 1..Len(lines) : Split(lines[i]) # <<>> /\ Split(lines[i])[1] = kw

\* C6: in a written file the number on the "Length" line is the number of
\* lines between "{" and "}", which is the element count of the table for a
\* LUT1D and its row count for a LUT3x1D; "Components" says 1 exactly for a
\* LUT1D and 3 exactly for a LUT3x1D.
C6_LengthAndComponents ==
    WroteOk =>
        LET l == file.lines
            N == ParseInt(Split(l[LineOf(l, KwLength)])[2])
            C == ParseInt(Split(l[LineOf(l, KwComponents)])[2])
        IN  /\ N.ok /\ C.ok
            /\ N.val = LineOf(l, KwClose) - LineOf(l, KwOpen) - 1
            /\ N.val = (IF LUT.cls = "LUT1D" THEN Size(LUT.table) ELSE LUT.table.shape[1])
            /\ (C.val = 1) = (LUT.cls = "LUT1D")
            /\ (C.val = 3) = (LUT.cls = "LUT3x1D")

\* A LUT3x1D was written: its row count, not its element count, is on the
\* "Length" line.
C6_Witness ==
    /\ WroteOk
    /\ LUT.cls = "LUT3x1D"
    /\ Size(LUT.table) = 3 * MaxSamples
    /\ file.lines[3] = LnLength(MaxSamples)
    /\ file.lines[4] = LnComponents(3)

\* The first non-blank character of the line is "#".
IsCommentLine(line) == LStrip(line) # <<>> /\ Head(LStrip(line)) = "#"
IsBlankLine(line) == LStrip(line) = <<>>

\* The line is the header line of keyword kw (and no comment).
IsHeaderLine(line, kw) == Split(line) # <<>> /\ Split(line)[1] = kw

\* The file has a "Components" line whose value is an integer other than 1
\* and 3.
HasBadComponents(lines) ==
    \E i \in 1..Len(lines) :
        /\ IsHeaderLine(lines[i], KwComponents)
        /\ Len(Split(lines[i])) >= 2
        /\ ParseInt(Split(lines[i])[2]).ok
        /\ ParseInt(Split(lines[i])[2]).val \notin {1, 3}

\* The last call read an existing file all of whose "Components" lines are
\* supported.
ReadGood == last = "read" /\ file.exists /\ ~HasBadComponents(file.lines)

\* C7: reading a file that has a "Components" line whose value is neither 1
\* nor 3 raises the format-validation error and returns no LUT, wherever
\* the line stands and whatever the other lines are.
C7_BadComponentsFails ==
    (last = "read" /\ file.exists /\ HasBadComponents(file.lines)) =>
        /\ ret.kind = "raised"
        /\ ret.error = "AssertionError"
        /\ ret.message = "Only 1 or 3 components are supported!"

\* "Components 4" as the first line of an otherwise complete 1D file (with
\* its own "Components 1" further down): the read raised.
C7_Witness ==
    /\ last = "read"
    /\ file.lines = InsertAt(ExampleLines, 0, LnComponents(4))
    /\ ret.kind = "raised"

\* The numeric data lines of a file, in file order, each as its values.
IsDataLine(line) ==
    LStrip(line) # <<>> /\ Head(LStrip(line)) \in DigitSet \cup {"-", "+", "."}
DataRows(lines) ==
    LET rows == SelectSeq(lines, IsDataLine)
    IN  [i \in 1..Len(rows) |-> ParseFloats(Split(rows[i])).val]

\* The number of header lines of keyword kw in the file.
CountOf(lines, kw) == Len(SelectSeq(lines, LAMBDA l : IsHeaderLine(l, kw)))

\* The values of the "From" line and of the "Components" line.
FromOf(lines) == ParseFloats(Tail(Split(lines[LineOf(lines, KwFrom)]))).val
ComponentsOf(lines) == ParseInt(Split(lines[LineOf(lines, KwComponents)])[2]).val

\* C8: a file with "Components 1" (one "From" line, one "Components"
\* line) yields a LUT1D whose table is
\* one-dimensional, one sample per row, and whose domain is the [min, max]
\* of the "From" line; a file with "Components 3" yields a LUT3x1D whose
\* table keeps the rows in file order and whose domain is the 2x3 matrix
\* [min, min, min], [max, max, max].  The example file yields domain
\* [-0.1, 1.5], table [0.0, 1.0] and comments ["test"].
C8_ResultType ==
    (ReadGood /\ CountOf(file.lines, KwFrom) = 1 /\ CountOf(file.lines, KwComponents) = 1) =>
        /\ ret.kind = "returned"
        /\ LET c == ComponentsOf(file.lines)
               from == FromOf(file.lines)
               rows == DataRows(file.lines)
               T == ret.value.table
               D == ret.value.domain
           IN  /\ c = 1 =>
                     /\ ret.value.cls = "LUT1D"
                     /\ T.shape = <<Len(rows)>>
                     /\ \A i \in 1..Len(rows) : <<T.flat[i]>> = rows[i]
                     /\ D.shape = <<2>>
                     /\ D.flat = from
               /\ c = 3 =>
                     /\ ret.value.cls = "LUT3x1D"
                     /\ T.shape = <<Len(rows), 3>>
                     /\ \A i \in 1..Len(rows) : SubSeq(T.flat, 3 * i - 2, 3 * i) = rows[i]
                     /\ D.shape = <<2, 3>>
                     /\ D.flat = <<from[1], from[1], from[1], from[2], from[2], from[2]>>
        /\ file.lines = ExampleLines =>
               /\ ret.value.cls = "LUT1D"
               /\ ret.value.domain = [shape |-> <<2>>, flat |-> <<Milli(0 - 100), Milli(1500)>>]
               /\ ret.value.table = [shape |-> <<2>>, flat |-> <<Milli(0), Milli(1000)>>]
               /\ ret.value.comments = <<<<"t", "e", "s", "t">>>>

\* The three-component example file was read: a LUT3x1D with the rows
\* [0.0, 0.25, -0.5] and [1.0, 1, .75] and the domain [-0.1, 1.5] per channel.
C8_Witness ==
    /\ last = "read"
    /\ file.lines = Example3Lines
    /\ ret.kind = "returned"
    /\ ret.value.cls = "LUT3x1D"
    /\ ret.value.table.flat =
           <<Milli(0), Milli(250), Milli(0 - 500), Milli(1000), Milli(1000), Milli(750)>>
    /\ ret.value.domain = Uniform(Milli(0 - 100), Milli(1500))

\* The comment lines of a file in file order, each without its "#" and
\* the whitespace around it.
CommentsOf(lines) ==
    LET cs == SelectSeq(lines, IsCommentLine)
    IN  [i \in 1..Len(cs) |-> Strip(Tail(LStrip(cs[i])))]

\* The file without its comment lines and blank lines.
WithoutComments(lines) ==
    SelectSeq(lines, LAMBDA l : ~IsCommentLine(l) /\ ~IsBlankLine(l))

\* C9: the comments of the returned LUT are the lines whose first
\* non-blank character is "#", from anywhere in the file, in file order,
\* without the "#" and the surrounding whitespace; these lines and the
\* blank lines contribute nothing else: the class, table and domain are
\* those of the file without them.
C9_CommentsAnywhere ==
    ReadGood =>
        /\ ret.kind = "returned"
        /\ ret.value.comments = CommentsOf(file.lines)
        /\ LET bare == ReadCall(FileOf(WithoutComments(file.lines))).ret
           IN  /\ bare.kind = "returned"
               /\ bare.value = [ret.value EXCEPT !.comments = <<>>]

\* The file with comments before the header, between header lines, inside
\* the block and after it was read: seven comments, three samples.
C9_Witness ==
    /\ last = "read"
    /\ file.lines = CommentedLines
    /\ ret.kind = "returned"
    /\ ret.value.comments =
           <<<<"f", "i", "r", "s", "t">>,
             <<"s", "e", "c", "o", "n", "d", " ", "o", "n", "e">>,
             LnFrom(<<"5">>, <<"6">>),
             <<>>,
             <<"0", ".", "7", "5">>,
             LnComponents(7),
             <<"l", "a", "s", "t">>>>
    /\ ret.value.table = Array1(<<Milli(500), Milli(1500), Milli(2000)>>)
    /\ ret.value.domain = Array1(<<Milli(0), Milli(2000)>>)

\* The file without its "Version" and "Length" lines.
WithoutVersionAndLength(lines) ==
    SelectSeq(lines, LAMBDA l : ~IsHeaderLine(l, KwVersion) /\ ~IsHeaderLine(l, KwLength))

\* C10: the returned table has one row per numeric data line, in file
\* order, whatever the "Length" line says or whether there is one, and the
\* "Version" and "Length" lines do not affect the returned LUT: it is the
\* LUT read from the file without them.
C10_LengthIgnored ==
    ReadGood =>
        /\ ret.kind = "returned"
        /\ RowCount(ret.value.table) = Len(DataRows(file.lines))
        /\ ret.value.table.flat = Flatten(DataRows(file.lines))
        /\ ReadCall(FileOf(WithoutVersionAndLength(file.lines))).ret = ret

\* A file that announces "Length 13" and has two rows was read: two rows.
C10_Witness ==
    /\ last = "read"
    /\ file.lines = WithLine(Example3Lines, 3, LnLength(13))
    /\ ret.kind = "returned"
    /\ RowCount(ret.value.table) = 2

\* C11: a write of a LUTSequence is not an error of its own: it emits the
\* warning of the substitution and then does exactly what the write of the
\* first element alone does: the same return or precondition failure, the
\* same I/O and the same file; the later elements have no influence.
C11_SequenceWritesFirst ==
    (last = "write" /\ LUT.cls = "LUTSequence") =>
        LET direct == WriteCall(LUT.seq[1], decimals)
        IN  /\ warned = <<SequenceWarning>>
            /\ direct.warnings = <<>>
            /\ ret = direct.ret
            /\ io = direct.io
            /\ (io # <<>> => file = ApplyIO(NoFile, direct.io))
            /\ \A other \in LUTSequences :
                   other.seq[1] = LUT.seq[1] =>
                       /\ WriteCall(other, decimals).ret = ret
                       /\ WriteCall(other, decimals).io = io

\* The sequence (example LUT1D, a LUT3D, the example LUT1D) was written:
\* the file is the one of the example LUT1D although the second element is
\* of a class the writer refuses.
C11_Witness ==
    /\ last = "write"
    /\ LUT.cls = "LUTSequence"
    /\ LUT.seq = <<ExampleLUT, OtherClassLUT, ExampleLUT>>
    /\ ret = Returned(TRUE)
    /\ warned # <<>>
    /\ file.exists
    /\ Len(file.lines) = 9

\* Positions of the events of one kind in the I/O of a call.
EventsAt(events, kind) == {i \in 1..Len(events) : events[i].ev = kind}

\* C20: a read or a write opens at most one file handle, and the handle it
\* opened is closed when the call ends, whether the call returns or raises
\* part-way: every other event of the call lies between the opening and
\* the closing, and no handle is left open.
C20_HandleClosed ==
    LET opens == EventsAt(io, "open")
        closes == EventsAt(io, "close")
    IN  /\ Cardinality(opens) <= 1
        /\ Cardinality(closes) = Cardinality(opens)
        /\ (io # <<>> => opens = {1} /\ closes = {Len(io)})

\* A read that raised on an unsupported "Components" count had opened the
\* file and has closed it.
C20_Witness ==
    /\ last = "read"
    /\ ret.kind = "raised"
    /\ HasBadComponents(file.lines)
    /\ io = <<EvOpen("r"), EvReadlines, EvClose>>

\* ------------------------------------------- claims on the encodings
\* The tolerance of the comparisons of modelled floats: 1e-5, ten units of
\* the arithmetic, absolute below 1 and relative above.
Tol == Pow10(FPrec - 5)
Close(a, b) == Abs(a - b) <= Tol + FMul(Tol, Abs(a))

\* The full code value of the call: I_max as an integer code value, 1.0 as
\* a float.
FullCode == IF args.int THEN I_max(args.bit_depth) ELSE One

\* The call with another linear value / in float mode.
WithX(X) == [args EXCEPT !.X = X]
InFloat == [args EXCEPT !.int = FALSE]

Called(cctf) == stage # "start" /\ args.cctf = cctf

\* C12 as stated: the RIMM encoding of X is 0 for X < 0; the linear segment
\* 4.5 X for 0 <= X < 0.018; the segment 1.099 X^0.45 - 0.099 for
\* 0.018 <= X <= E_clip (both scaled by q); and the full code value (I_max,
\* 1.0 as a float) for every X > E_clip.
C12_FourWaySelector ==
    Called("RIMM") =>
        LET Im == I_max(args.bit_depth)
            X == args.X
            segment == IF X < 0 THEN 0
                       ELSE IF X < Th(18) THEN FMul(Th(4500), X)
                       ELSE FMul(Th(1099), spow(X, Th(450))) - Th(99)
            X_p == FMul(q_RIMM(Im, args.E_clip), segment)
        IN  IF X > args.E_clip THEN encoded = FullCode
            ELSE encoded = (IF args.int THEN RoundCode(X_p) ELSE FDivInt(X_p, Im))

\* C13 as stated: the ERIMM encoding of every X >= E_clip is the full code
\* value (I_max, 1.0 as a float).
C13_ClampAtEclip ==
    (Called("ERIMM") /\ args.X >= args.E_clip) => encoded = FullCode

\* C14 as stated: the ROMM, RIMM and ERIMM encodings of every X <= 0 are 0,
\* as a float and as an integer code value.
C14_NonPositiveToZero ==
    (stage # "start" /\ args.X <= 0) => encoded = 0

RoundTripped == stage = "decoded" /\ 0 <= args.X /\ args.X <= One

C16_Monotone ==
    stage # "start" =>
        \A X \in XsOf(args.cctf, args.E_min, args.E_clip) :
            X <= args.X => EncodeOf(WithX(X)) <= encoded

\* The RIMM encoding at the knee 0.018 is above the one just below it.
C16_Witness ==
    /\ Called("RIMM")
    /\ args.X = Th(18)
    /\ ~args.int
    /\ EncodeOf(WithX(Th(17))) < encoded

\* c is an integer nearest to the code value x, itself known to half a
\* unit of the arithmetic times I_max.
IsNearestCode(c, x, Im) == 2 * Abs(Num(c) - x) <= One + Im

\* C18: integer mode is float mode scaled by I_max: the integer encoding is
\* the float encoding times I_max rounded, and the decoding of a code value
\* c with in_int is the float decoding of c / I_max.
C18_IntegerModeIsScaling ==
    (stage # "start" /\ args.int) =>
        LET Im == I_max(args.bit_depth)
        IN  /\ IsNearestCode(encoded, EncodeOf(InFloat) * Im, Im)
            /\ stage = "decoded" =>
                   Close(decoded, DecodeOf(InFloat, FDivInt(Num(encoded), Im)))

\* The ERIMM 8-bit code value 105 of 0.18 was decoded.
C18_Witness ==
    /\ stage = "decoded"
    /\ args = CallArgs("ERIMM", Th(180), 8, TRUE, Th(1), Th(316200))
    /\ encoded = 105
    /\ decoded > 0

\* C19: the RIMM encoding of X = E_clip is the full code value (I_max, 1.0
\* as a float), and the encoding of every X in [0, E_clip] lies between 0
\* and the full code value.
C19_ClipIsFullCode ==
    (Called("RIMM") /\ 0 <= args.X /\ args.X <= args.E_clip) =>
        /\ args.X = args.E_clip =>
               IF args.int THEN encoded = FullCode ELSE Close(FullCode, encoded)
        /\ 0 <= encoded
        /\ encoded <= FullCode + (IF args.int THEN 0 ELSE Tol)

\* E_clip = 0.5 encodes to the 10-bit code value 1023.
C19_Witness ==
    /\ Called("RIMM")
    /\ args.X = Th(500)
    /\ args.E_clip = Th(500)
    /\ args.int
    /\ args.bit_depth = 10
    /\ encoded = 1023

\* Positions of cctf_decoding_RIMMRGB inside its "with" block.
InsideWith == {"inside", "nested_done", "raising"}

\* C17: cctf_decoding_RIMMRGB sets the ambient scale to "ignore" only for
\* the nested cctf_encoding_RIMMRGB call: outside the "with" block, and
\* when the call has returned or raised, the setting and the scopes are
\* the caller's; the nested conversions run under "ignore"; the argument
\* conversion and the final range conversion run under the caller's
\* setting.
C17_ScaleScopedToNestedCall ==
    /\ pc \notin InsideWith => scale = outer.scale /\ saved = outer.saved
    /\ pc \in InsideWith => scale = "ignore" /\ saved = Append(outer.saved, outer.scale)
    /\ \A i \in 1..Len(trace) :
           trace[i].scale =
               IF trace[i].op \in {"nested to_domain_1", "nested from_range_1"}
               THEN "ignore" ELSE outer.scale
    /\ pc = "returned" =>
           /\ Len(trace) = 4
           /\ trace[4] = [op |-> "from_range_1", scale |-> outer.scale]

\* A caller under the setting "1", itself inside a scope, got the value
\* back: the nested call ran under "ignore", the final conversion under "1".
C17_Witness ==
    /\ pc = "returned"
    /\ outer = [scale |-> "1", saved |-> <<"reference">>]
    /\ scale = "1"
    /\ trace[2].scale = "ignore"
    /\ trace[4] = [op |-> "from_range_1", scale |-> "1"]

\* The header keywords of the format.
HeaderKws == {KwVersion, KwFrom, KwLength, KwComponents, KwOpen, KwClose}
IsAnyHeaderLine(line) == \E kw \in HeaderKws : IsHeaderLine(line, kw)

\* The last header line of keyword kw, <<>> when the file has none.
LastOf(lines, kw) ==
    LET ls == SelectSeq(lines, LAMBDA l : IsHeaderLine(l, kw))
    IN  IF ls = <<>> THEN <<>> ELSE <<ls[Len(ls)]>>

\* The data rows, comment lines and blank lines of the file, in file order.
NonHeaderLines(lines) == SelectSeq(lines, LAMBDA l : ~IsAnyHeaderLine(l))

\* What of a file the claim says the result depends on: the header values
\* in force (last "From", last "Components"), put first, and then the data
\* rows and comment lines in their relative order.
HeaderFirst(lines) ==
    LastOf(lines, KwFrom) \o LastOf(lines, KwComponents) \o NonHeaderLines(lines)

\* The domain in force: of the last "From" line, [0, 1] without one.
DomainInForce(lines) ==
    IF LastOf(lines, KwFrom) = <<>> THEN <<0, Pow10(Prec)>>
    ELSE ParseFloats(Tail(Split(LastOf(lines, KwFrom)[1]))).val

\* The class in force: of the last "Components" line, LUT1D without one.
ClassInForce(lines) ==
    IF LastOf(lines, KwComponents) = <<>> THEN "LUT1D"
    ELSE IF ParseInt(Split(LastOf(lines, KwComponents)[1])[2]).val = 1 THEN "LUT1D"
    ELSE "LUT3x1D"

\* C21: the result of a read of a file whose "Components" values are all
\* supported depends only on the header values and on the relative order of
\* the data rows and of the comment lines, not on where the header lines
\* stand: it is the result of reading the file with the last "From" and the
\* last "Components" line first and no other header line; a repeated "From"
\* or "Components" takes its last occurrence; without "From" the domain is
\* [0, 1]; without "Components" the result is a LUT1D.
C21_HeaderPositionFree ==
    ReadGood =>
        /\ ret.kind = "returned"
        /\ ret = ReadCall(FileOf(HeaderFirst(file.lines))).ret
        /\ ret.value.cls = ClassInForce(file.lines)
        /\ ret.value.domain =
               (IF ret.value.cls = "LUT1D" THEN Array1(DomainInForce(file.lines))
                ELSE Uniform(DomainInForce(file.lines)[1], DomainInForce(file.lines)[2]))
        /\ ret.value.table.flat = Flatten(DataRows(file.lines))
        /\ ret.value.comments = CommentsOf(file.lines)

\* The example file with a second line "From 0 2" between its two data
\* rows was read: a LUT1D of the two samples with the domain [0, 2].
C21_Witness ==
    /\ last = "read"
    /\ file.lines = InsertAt(ExampleLines, 6, LnFrom(<<"0">>, <<"2">>))
    /\ ret.kind = "returned"
    /\ ret.value.cls = "LUT1D"
    /\ ret.value.domain = Array1(<<Milli(0), Milli(2000)>>)
    /\ ret.value.table = Array1(<<Milli(0), Milli(1000)>>)
    /\ ret.value.comments = <<<<"t", "e", "s", "t">>>>

\* The [min, max] interval of channel c of a 2x3 domain.
ChannelOf(L, c) == <<L.domain.flat[c], L.domain.flat[3 + c]>>

\* min < max in each of the three channels.
ChannelsOrdered(L) == \A c \in 1..3 : ChannelOf(L, c)[1] < ChannelOf(L, c)[2]

\* The three channels have one and the same interval.
ChannelsShared(L) == \A c \in 2..3 : ChannelOf(L, c) = ChannelOf(L, 1)

\* C22: for a LUT3x1D with an implicit domain whose three channels each
\* have min < max, the write passes the domain check (and succeeds) exactly
\* when the three channels share one [min, max] interval, it is refused as
\* a non-uniform domain otherwise, and the "From" line of the written file
\* carries that min and then that max, at the decimals of the call.
C22_DomainCheckIffShared ==
    (/\ last = "write"
     /\ LUT.cls = "LUT3x1D"
     /\ ~IsDomainExplicit(LUT)
     /\ ChannelsOrdered(LUT)) =>
        /\ (ret.kind = "returned") = ChannelsShared(LUT)
        /\ ret.kind # "returned" =>
               /\ ret.kind = "raised"
               /\ ret.message = "Non-uniform \"LUT\" domain is unsupported!"
        /\ ret.kind = "returned" =>
               LET toks == Split(file.lines[2])
                   d == EffectiveDecimals(decimals)
               IN  /\ Len(toks) = 3
                   /\ toks[1] = KwFrom
                   /\ IsFixedPointOf(toks[2], ChannelOf(LUT, 1)[1], d)
                   /\ IsFixedPointOf(toks[3], ChannelOf(LUT, 1)[2], d)

\* The LUT3x1D whose three channels share [0.5, 1] was written with one
\* decimal: "From 0.5 1.0".
C22_Witness ==
    /\ last = "write"
    /\ LUT.cls = "LUT3x1D"
    /\ LUT.domain = Uniform(Milli(500), Milli(1000))
    /\ decimals = <<1>>
    /\ ret.kind = "returned"
    /\ file.lines[2] = LnFrom(<<"0", ".", "5">>, <<"1", ".", "0">>)

\* A write of a LUT3x1D with the channels [0, 1], [0, 1] and [0.5, 1] was
\* refused.
C22_Refused ==
    /\ last = "write"
    /\ LUT.cls = "LUT3x1D"
    /\ LUT.domain = Array2(<<<<Milli(0), Milli(0), Milli(500)>>,
                              <<Milli(1000), Milli(1000), Milli(1000)>>>>)
    /\ ret.kind = "raised"

\* The exponential of the last planck_law call overflows: its argument,
\* 1.4388e-2 / (wavelength * temperature), is 710 or more.
ExponentialOverflows ==
    /\ calls > 0
    /\ planckArgs.wavelength * planckArgs.temperature > 0
    /\ 14388000 \div (planckArgs.wavelength * planckArgs.temperature) >= 710

\* The last planck_law call raised a runtime warning: numpy scalars with a
\* zero wavelength or temperature.
RuntimeWarningRaised ==
    /\ calls > 0
    /\ planckArgs.numpy
    /\ planckArgs.wavelength * planckArgs.temperature = 0

\* C23: a planck_law call whose exponential overflows, or in which a
\* runtime warning is raised, returns 0.0 and raises nothing, and so does
\* every later call with the same arguments; a call answered from the
\* cache returns what the cache holds for its arguments.
C23_OverflowIsZero ==
    /\ (ExponentialOverflows \/ RuntimeWarningRaised) => planckRet = Returned(Zero)
    /\ cacheHit => planckRet = Returned(PLANCK_LAW_CACHE[CacheKey(planckArgs)])

\* planck_law(770e-9, 26) was called again after it had returned 0.0: the
\* call is answered from the cache with 0.0.
C23_Witness ==
    /\ calls >= 2
    /\ planckArgs = [wavelength |-> 770, temperature |-> 26, numpy |-> FALSE]
    /\ cacheHit
    /\ planckRet = Returned(Zero)

\* planck_law(500e-9, 5500) returned the 20472701909806.58 of the
\* docstring, whose logarithm is 30.65.
C23_Example ==
    /\ planckArgs = [wavelength |-> 500, temperature |-> 5500, numpy |-> FALSE]
    /\ planckRet.kind = "returned"
    /\ planckRet.value.sign = 1
    /\ Abs(planckRet.value.ln - 30650000) < 1000

====
